---- MODULE Spec2Model ----
(***************************************************************************)
(* A model of the Preda market simulator (src/src/*.rs): the configuration *)
(* builder, the belief-signal oracle, the market resolution state machine, *)
(* the participant decision model and the run loop of Simulator::run.      *)
(*                                                                         *)
(* Numbers.  Every f64 of the program is modelled as an integer count of   *)
(* thousandths (fixed point): 1.0 is One = 1000, 0.75 is 750, a negative   *)
(* value is a negative integer.  A product of two such numbers is Mul,     *)
(* which rounds toward zero.  NaN and the infinities are not modelled.     *)
(* Times are whole seconds (chrono DateTime<Utc> / Duration).              *)
(* Option<T> is a sequence: None is << >> and Some(x) is <<x>>.            *)
(***************************************************************************)
EXTENDS Integers, Sequences, FiniteSets, TLC

VARIABLES
    builder,       \* SimulationConfigBuilder under construction (config.rs:77-87)
    build_result,  \* Option<Result<SimulationConfig>>: what build() returned
    sim,           \* Simulator { config } (simulator.rs:15-17)
    runs,          \* per call of Simulator::run: the locals of that call
    mkt,           \* a Market driven directly through its public operations
    mkt_ret,       \* the last operation on mkt and what it returned
    orc,           \* an OracleSimulator driven directly through its operations
    orc_ret,       \* the last operation on orc and what it returned
    evaluation,    \* the last call of Strategy::evaluate: arguments and outcome
    backtest,      \* a StrategyBacktest driven through calculate_metrics
    analysis       \* the last call of Analytics::analyze: argument and result

vars == <<builder, build_result, sim, runs, mkt, mkt_ret, orc, orc_ret,
          evaluation, backtest, analysis>>

(***************************************************************************)
(* Bounds of the model (not program constants).                            *)
(***************************************************************************)
MaxDays == 2
MaxParticipants == 2
MaxOps == 4
MaxHistory == 2
MaxReturns == 3
MaxCalls == 2
MaxResults == 3
MaxAdvances == 3

(***************************************************************************)
(* Fixed-point arithmetic and Option.                                      *)
(***************************************************************************)
One == 1000
Half == 500
SecsPerDay == 86400

None == << >>
Some(x) == <<x>>
IsSome(o) == o # << >>
Unwrap(o) == o[1]

Abs(x) == IF x < 0 THEN -x ELSE x
TruncDiv(a, b) == IF a >= 0 THEN a \div b ELSE -((-a) \div b)
Mul(a, b) == TruncDiv(a * b, One)
Clamp(x, lo, hi) == IF x < lo THEN lo ELSE IF x > hi THEN hi ELSE x

Ok(v) == [tag |-> "Ok", val |-> v]
Err(kind, msg) == [tag |-> "Err", kind |-> kind, msg |-> msg]
IsOk(r) == r.tag = "Ok"

(***************************************************************************)
(* types.rs: BSI                                                           *)
(***************************************************************************)
\* A plausible slip: the range is taken open, so 0.0 and 1.0 are refused.
BSI_new_exclusive(value) ==
    IF ~(0 < value /\ value < One)
    THEN [tag |-> "Err", msg |-> "BSI value must be between 0.0 and 1.0"]
    ELSE [tag |-> "Ok", val |-> value]

\* BSI::new: Err unless 0.0 <= value <= 1.0.
BSI_new(value) ==
    IF ~(0 <= value /\ value <= One)
    THEN [tag |-> "Err", msg |-> "BSI value must be between 0.0 and 1.0"]
    ELSE [tag |-> "Ok", val |-> value]

\* BSI::distance_from
distance_from(bsi, threshold) == Abs(bsi - threshold)

(***************************************************************************)
(* config.rs: SimulationConfig, its validation and its builder             *)
(***************************************************************************)
\* SimulationConfigBuilder::default(): every option unset.
SimulationConfigBuilder_default ==
    [duration_days |-> None, num_participants |-> None, initial_bsi |-> None,
     volatility |-> None, threshold |-> None, persistence_hours |-> None,
     update_frequency_secs |-> None, seed |-> None]

unwrap_or(o, d) == IF IsSome(o) THEN Unwrap(o) ELSE d

\* A plausible slip: the range checks run before the count checks.
validate_reordered(c) ==
    IF ~(0 <= c.initial_bsi /\ c.initial_bsi <= One)
        THEN Err("InvalidConfig", "Initial BSI must be between 0.0 and 1.0")
    ELSE IF ~(0 <= c.volatility /\ c.volatility <= One)
        THEN Err("InvalidConfig", "Volatility must be between 0.0 and 1.0")
    ELSE IF ~(0 <= c.threshold /\ c.threshold <= One)
        THEN Err("InvalidConfig", "Threshold must be between 0.0 and 1.0")
    ELSE IF c.duration_days = 0
        THEN Err("InvalidConfig", "Duration must be greater than 0")
    ELSE IF c.num_participants = 0
        THEN Err("InvalidConfig", "Must have at least 1 participant")
    ELSE IF c.update_frequency_secs = 0
        THEN Err("InvalidConfig", "Update frequency must be greater than 0")
    ELSE Ok(<< >>)

\* SimulationConfig::validate: the first failing check decides the message.
validate(c) ==
    IF c.duration_days = 0 THEN Err("InvalidConfig", "Duration must be greater than 0")
    ELSE IF c.num_participants = 0
        THEN Err("InvalidConfig", "Must have at least 1 participant")
    ELSE IF ~(0 <= c.initial_bsi /\ c.initial_bsi <= One)
        THEN Err("InvalidConfig", "Initial BSI must be between 0.0 and 1.0")
    ELSE IF ~(0 <= c.volatility /\ c.volatility <= One)
        THEN Err("InvalidConfig", "Volatility must be between 0.0 and 1.0")
    ELSE IF ~(0 <= c.threshold /\ c.threshold <= One)
        THEN Err("InvalidConfig", "Threshold must be between 0.0 and 1.0")
    ELSE IF c.update_frequency_secs = 0
        THEN Err("InvalidConfig", "Update frequency must be greater than 0")
    ELSE Ok(<< >>)

\* The configuration build() assembles before validating it.
build_config(b) ==
    [duration_days |-> unwrap_or(b.duration_days, 30),
     num_participants |-> unwrap_or(b.num_participants, 100),
     initial_bsi |-> unwrap_or(b.initial_bsi, 500),
     volatility |-> unwrap_or(b.volatility, 100),
     threshold |-> unwrap_or(b.threshold, 750),
     persistence_hours |-> unwrap_or(b.persistence_hours, 24),
     update_frequency_secs |-> unwrap_or(b.update_frequency_secs, 300),
     seed |-> b.seed]

\* SimulationConfigBuilder::build
build(b) ==
    LET config == build_config(b)
        v == validate(config)
    IN  IF IsOk(v) THEN Ok(config) ELSE v

(***************************************************************************)
(* oracle.rs: OracleSimulator                                              *)
(***************************************************************************)
\* OracleSimulator::new
OracleSimulator_new(config, initial_bsi) ==
    [config |-> config, current_bsi |-> initial_bsi, target_bsi |-> None]

\* OracleSimulator::set_target
set_target(o, target) == [o EXCEPT !.target_bsi = Some(target)]

\* OracleSimulator::reset
reset(o, initial_bsi) == [o EXCEPT !.current_bsi = initial_bsi, !.target_bsi = None]

\* rng.gen_range(lo..hi) panics on an empty range; otherwise lo <= draw < hi.
gen_range_panics(lo, hi) == ~(lo < hi)

\* The values the model draws from the half-open range lo..hi.
RangeDraws(lo, hi) ==
    IF lo < hi THEN {lo, hi - 1} \cup (IF lo < 0 /\ 0 < hi THEN {0} ELSE {}) ELSE {0}

\* Standard-normal draws, in whole standard deviations.
NoiseZ == {-3, 0, 2}

\* A plausible slip: the difference to the target is taken the other way
\* round, so the targeted drift moves the BSI away from the target.
next_bsi_reversed_diff(o, drift, z, strict) ==
    LET cur == o.current_bsi
        dr == o.config.drift_rate
        targeted == IsSome(o.target_bsi)
        v1 == IF targeted
              THEN cur + Mul(cur - Unwrap(o.target_bsi), dr)
              ELSE cur + drift
        v2 == v1 + o.config.noise_level * z
        v3 == v2 + Mul(Half - v2, o.config.mean_reversion)
        v4 == Clamp(v3, 0, One)
        b == BSI_new(v4)
    IN  IF ~targeted /\ gen_range_panics(-dr, dr)
        THEN [outcome |-> "Panic", oracle |-> o, ret |-> None]
        ELSE IF strict /\ o.config.noise_level < 0
        THEN [outcome |-> "Err", oracle |-> o,
              ret |-> Some(Err("OracleError", "bad variance"))]
        ELSE IF ~IsOk(b)
        THEN [outcome |-> "Err", oracle |-> o, ret |-> Some(Err("OracleError", b.msg))]
        ELSE [outcome |-> "Ok", oracle |-> [o EXCEPT !.current_bsi = b.val],
              ret |-> Some(Ok(b.val))]

\* OracleSimulator::next_bsi with the run's random draws made explicit:
\* drift is the gen_range draw of the random walk, z the standard-normal draw,
\* strict tells whether the linked Normal::new rejects a negative deviation.
\* The result is the outcome ("Ok", "Err", "Panic"), the oracle afterwards
\* and the returned value.
next_bsi(o, drift, z, strict) ==
    LET cur == o.current_bsi
        dr == o.config.drift_rate
        targeted == IsSome(o.target_bsi)
        v1 == IF targeted
              THEN cur + Mul(Unwrap(o.target_bsi) - cur, dr)
              ELSE cur + drift
        v2 == v1 + o.config.noise_level * z
        v3 == v2 + Mul(Half - v2, o.config.mean_reversion)
        v4 == Clamp(v3, 0, One)
        b == BSI_new(v4)
    IN  IF ~targeted /\ gen_range_panics(-dr, dr)
        THEN [outcome |-> "Panic", oracle |-> o, ret |-> None]
        ELSE IF strict /\ o.config.noise_level < 0
        THEN [outcome |-> "Err", oracle |-> o,
              ret |-> Some(Err("OracleError", "bad variance"))]
        ELSE IF ~IsOk(b)
        THEN [outcome |-> "Err", oracle |-> o, ret |-> Some(Err("OracleError", b.msg))]
        ELSE [outcome |-> "Ok", oracle |-> [o EXCEPT !.current_bsi = b.val],
              ret |-> Some(Ok(b.val))]

\* A plausible slip: the shocked value is stored without clamp or validation.
apply_shock_unchecked(o, magnitude) ==
    LET new_value == o.current_bsi + magnitude
    IN  [outcome |-> "Ok", oracle |-> [o EXCEPT !.current_bsi = new_value],
         ret |-> Some(Ok(new_value))]

\* OracleSimulator::apply_shock
apply_shock(o, magnitude) ==
    LET new_value == Clamp(o.current_bsi + magnitude, 0, One)
        b == BSI_new(new_value)
    IN  IF ~IsOk(b)
        THEN [outcome |-> "Err", oracle |-> o, ret |-> Some(Err("OracleError", b.msg))]
        ELSE [outcome |-> "Ok", oracle |-> [o EXCEPT !.current_bsi = b.val],
              ret |-> Some(Ok(b.val))]

(***************************************************************************)
(* market.rs: Market                                                       *)
(***************************************************************************)
\* TimeInterval::new
TimeInterval_new(start, end) == [start |-> start, end |-> end]

\* Market::new
Market_new(id, initial_bsi, threshold, time_interval) ==
    [id |-> id, state |-> "Active", current_bsi |-> initial_bsi,
     threshold |-> threshold, time_interval |-> time_interval,
     trades |-> << >>, positions |-> << >>, total_volume |-> 0,
     resolution_time |-> None]

\* Market::update_bsi
update_bsi(m, new_bsi) == [m EXCEPT !.current_bsi = new_bsi]

\* A plausible slip: the volume grows by the notional size * price of the trade.
add_trade_notional(m, trade) ==
    [m EXCEPT !.total_volume = @ + Mul(trade.size, trade.price),
              !.trades = Append(@, trade)]

\* A plausible slip: a trade also opens a position in the market's list.
add_trade_opening_position(m, trade) ==
    [m EXCEPT !.total_volume = @ + trade.size, !.trades = Append(@, trade),
              !.positions = Append(@, [participant_id |-> trade.participant_id,
                                       size |-> trade.size,
                                       entry_price |-> trade.price,
                                       entry_time |-> trade.timestamp,
                                       position_type |-> "Long"])]

\* Market::add_trade
add_trade(m, trade) ==
    [m EXCEPT !.total_volume = @ + trade.size, !.trades = Append(@, trade)]

\* Market::add_position
add_position(m, position) == [m EXCEPT !.positions = Append(@, position)]

\* A plausible slip: the interval's end is excluded.
should_resolve_exclusive(m, current_time) ==
    /\ m.current_bsi >= m.threshold
    /\ current_time >= m.time_interval.start
    /\ current_time < m.time_interval.end

\* A plausible slip: a BSI equal to the threshold does not count as reaching it.
should_resolve_strict(m, current_time) ==
    /\ m.current_bsi > m.threshold
    /\ current_time >= m.time_interval.start
    /\ current_time <= m.time_interval.end

\* Market::should_resolve
should_resolve(m, current_time) ==
    LET threshold_crossed == m.current_bsi >= m.threshold
        within_interval == /\ current_time >= m.time_interval.start
                           /\ current_time <= m.time_interval.end
    IN  threshold_crossed /\ within_interval

\* A plausible slip: the state changes but the time is not recorded.
resolve_untimed(m, resolution_time) == [m EXCEPT !.state = "Resolved"]

\* A plausible slip: resolve suspends the market instead of resolving it.
resolve_paused(m, resolution_time) ==
    [m EXCEPT !.state = "Paused", !.resolution_time = Some(resolution_time)]

\* Market::resolve
resolve(m, resolution_time) ==
    [m EXCEPT !.state = "Resolved", !.resolution_time = Some(resolution_time)]

\* Market::statistics
statistics(m) ==
    [total_trades |-> Len(m.trades),
     total_volume |-> m.total_volume,
     active_positions |-> Len(m.positions),
     current_bsi |-> m.current_bsi,
     threshold |-> m.threshold,
     time_to_resolution |->
        IF IsSome(m.resolution_time)
        THEN Some(Unwrap(m.resolution_time) - m.time_interval.start)
        ELSE None]

(***************************************************************************)
(* participant.rs: Participant                                             *)
(***************************************************************************)
\* ParticipantBehavior::all
behaviors ==
    <<"Rational", "Momentum", "Contrarian", "Random", "Conservative", "Aggressive">>

\* Participant::new; risk_tolerance is its gen_range(0.1..0.9) draw.
Participant_new(id, behavior, capital, risk_tolerance) ==
    [id |-> id, behavior |-> behavior, positions |-> << >>, capital |-> capital,
     risk_tolerance |-> risk_tolerance]

\* A plausible slip: the distance gates are taken inclusive (>= 0.1, >= 0.2).
should_trade_inclusive(p, current_bsi, threshold, coin) ==
    CASE p.behavior = "Rational" ->
            distance_from(current_bsi, threshold) >= 100 /\ coin
      [] p.behavior = "Conservative" ->
            distance_from(current_bsi, threshold) >= 200 /\ coin
      [] OTHER -> coin

\* Participant::should_trade; coin is the gen_bool draw of the behaviour.
should_trade(p, current_bsi, threshold, coin) ==
    CASE p.behavior = "Rational" ->
            distance_from(current_bsi, threshold) > 100 /\ coin
      [] p.behavior = "Conservative" ->
            distance_from(current_bsi, threshold) > 200 /\ coin
      [] OTHER -> coin

\* Participant::calculate_position_size: capital * risk_tolerance * 0.1
calculate_position_size(p) == Mul(Mul(p.capital, p.risk_tolerance), 100)

(***************************************************************************)
(* simulator.rs: Simulator                                                 *)
(***************************************************************************)
Scenarios ==
    {"BullishTrend", "BearishTrend", "Sideways", "SentimentReversal",
     "ConsensusFormation", "HighVolatility", "LowActivity", "FlashCrash",
     "ParabolicRise", "Custom"}

\* Simulator::new
Simulator_new(config) == [config |-> config]

\* The oracle configuration run derives from the volatility (simulator.rs:42-47).
oracle_config(config) ==
    [update_frequency |-> config.update_frequency_secs,
     noise_level |-> Mul(config.volatility, 500),
     drift_rate |-> Mul(config.volatility, 100),
     mean_reversion |-> 100]

\* The scenario's oracle target (simulator.rs:52-59).
scenario_target(scenario, config) ==
    CASE scenario = "BullishTrend" -> Some(800)
      [] scenario = "BearishTrend" -> Some(200)
      [] scenario = "SentimentReversal" -> Some(900)
      [] scenario = "ConsensusFormation" -> Some(config.threshold)
      [] scenario = "ParabolicRise" -> Some(950)
      [] OTHER -> None

\* Simulator::create_participants; rts holds the risk-tolerance draws.
create_participants(config, rts) ==
    [i \in 1..config.num_participants |->
        Participant_new(<<"participant", i - 1>>, behaviors[((i - 1) % Len(behaviors)) + 1],
                        1000 * One, rts[i])]

\* Simulator::create_trade; counter is the counter after its increment.
create_trade(participant, current_bsi, timestamp, counter) ==
    [id |-> <<"trade", counter>>,
     participant_id |-> participant.id,
     trade_type |-> "Open",
     size |-> calculate_position_size(participant),
     price |-> current_bsi,
     timestamp |-> timestamp,
     bsi_at_trade |-> current_bsi]

\* Duration::num_days of a difference of two times.
num_days(secs) == TruncDiv(secs, SecsPerDay)

\* Simulator::should_apply_shock; hit is the HighVolatility gen_bool(0.1) draw
\* and mag its gen_range(-0.2..0.2) draw.
should_apply_shock(scenario, current_time, start_time, hit, mag) ==
    LET elapsed_days == num_days(current_time - start_time)
    IN  CASE scenario = "FlashCrash" /\ elapsed_days = 7 -> Some(-300)
          [] scenario = "SentimentReversal" /\ elapsed_days = 10 -> Some(400)
          [] scenario = "HighVolatility" /\ hit -> Some(mag)
          [] OTHER -> None

\* The participant loop of one tick (simulator.rs:80-90): participants i..n are
\* polled in order; st is the market and the trade counter so far.
RECURSIVE trade_loop(_, _, _, _, _, _, _)
trade_loop(st, participants, i, coins, new_bsi, threshold, current_time) ==
    IF i > Len(participants) THEN st
    ELSE LET p == participants[i]
             next == IF should_trade(p, new_bsi, threshold, coins[i])
                     THEN [market |-> add_trade(st.market,
                                        create_trade(p, new_bsi, current_time,
                                                     st.counter + 1)),
                           counter |-> st.counter + 1]
                     ELSE st
         IN  trade_loop(next, participants, i + 1, coins, new_bsi, threshold,
                        current_time)

\* A plausible slip: the final BSI is read from the oracle, not the market.
simulation_result_oracle_bsi(run) ==
    [market_id |-> run.market.id,
     scenario |-> run.scenario,
     final_bsi |-> run.oracle.current_bsi,
     total_volume |-> run.market.total_volume,
     total_trades |-> Len(run.market.trades),
     resolution_time |-> run.market.resolution_time,
     duration_days |-> num_days(run.current_time - run.start_time),
     threshold_reached |-> run.market.state = "Resolved",
     statistics |-> statistics(run.market)]

\* The record run returns (simulator.rs:102-112).
simulation_result(run) ==
    [market_id |-> run.market.id,
     scenario |-> run.scenario,
     final_bsi |-> run.market.current_bsi,
     total_volume |-> run.market.total_volume,
     total_trades |-> Len(run.market.trades),
     resolution_time |-> run.market.resolution_time,
     duration_days |-> num_days(run.current_time - run.start_time),
     threshold_reached |-> run.market.state = "Resolved",
     statistics |-> statistics(run.market)]

\* A plausible slip: a rejected initial BSI falls back to BSI::default().
run_begin_default(config, scenario, now, rts) ==
    LET start_time == now
        end_time == start_time + config.duration_days * SecsPerDay
        initial_bsi == IF IsOk(BSI_new(config.initial_bsi)) THEN config.initial_bsi
                       ELSE Half
        target == scenario_target(scenario, config)
        oracle0 == OracleSimulator_new(oracle_config(config), initial_bsi)
    IN  [pc |-> "loop", scenario |-> scenario, start_time |-> start_time,
         end_time |-> end_time,
         market |-> Market_new(<<"sim", start_time>>, initial_bsi, config.threshold,
                               TimeInterval_new(start_time, end_time)),
         oracle |-> IF IsSome(target) THEN set_target(oracle0, Unwrap(target))
                    ELSE oracle0,
         participants |-> create_participants(config, rts),
         current_time |-> start_time, trade_counter |-> 0, ticks |-> 0,
         new_bsi |-> None, shock |-> None, shocks |-> 0, ret |-> None]

\* The start of run up to the loop (simulator.rs:28-67): now is Utc::now().
run_begin(config, scenario, now, rts) ==
    LET start_time == now
        end_time == start_time + config.duration_days * SecsPerDay
        interval == TimeInterval_new(start_time, end_time)
        initial_bsi == BSI_new(config.initial_bsi)
        base == [pc |-> "loop", scenario |-> scenario, start_time |-> start_time,
                 end_time |-> end_time, market |-> << >>, oracle |-> << >>,
                 participants |-> << >>, current_time |-> start_time,
                 trade_counter |-> 0, ticks |-> 0, new_bsi |-> None,
                 shock |-> None, shocks |-> 0, ret |-> None]
    IN  IF ~IsOk(initial_bsi)
        THEN [base EXCEPT !.pc = "failed",
                          !.ret = Some(Err("InvalidConfig", initial_bsi.msg))]
        ELSE LET market == Market_new(<<"sim", start_time>>, initial_bsi.val,
                                      config.threshold, interval)
                 oracle0 == OracleSimulator_new(oracle_config(config), initial_bsi.val)
                 target == scenario_target(scenario, config)
                 oracle == IF IsSome(target) THEN set_target(oracle0, Unwrap(target))
                           ELSE oracle0
             IN  [base EXCEPT !.market = market, !.oracle = oracle,
                              !.participants = create_participants(config, rts)]

\* A plausible slip: the loop runs once more at end_time itself.
loop_continues_inclusive(run) ==
    run.current_time <= run.end_time /\ run.market.state = "Active"

\* A plausible slip: the loop condition forgets the market's state.
loop_continues_resolved(run) == run.current_time < run.end_time

\* The loop condition (simulator.rs:69).
loop_continues(run) ==
    run.current_time < run.end_time /\ run.market.state = "Active"

\* A plausible slip: a tick that forgets to advance the simulated time.
run_tick_stalled(config, run, drift, z, strict, hit, mag, coins) ==
    [run EXCEPT !.ticks = @ + 1]

\* A plausible slip: the trades of a tick are made at the oracle's BSI after
\* the shock instead of at the BSI the advance returned.
run_tick_trades_after_shock(config, run, drift, z, strict, hit, mag, coins) ==
    LET adv == next_bsi(run.oracle, drift, z, strict)
    IN  IF adv.outcome = "Panic"
        THEN [run EXCEPT !.pc = "panicked", !.ticks = @ + 1, !.shock = None]
        ELSE IF adv.outcome = "Err"
        THEN [run EXCEPT !.pc = "failed", !.ret = adv.ret, !.ticks = @ + 1,
                         !.shock = None]
        ELSE
        LET new_bsi == adv.ret[1].val
            market1 == update_bsi(run.market, new_bsi)
            shock == should_apply_shock(run.scenario, run.current_time,
                                        run.start_time, hit, mag)
            shocked == IF IsSome(shock) THEN apply_shock(adv.oracle, Unwrap(shock))
                       ELSE [outcome |-> "Ok", oracle |-> adv.oracle, ret |-> None]
        IN  IF shocked.outcome = "Err"
            THEN [run EXCEPT !.pc = "failed", !.ret = shocked.ret, !.ticks = @ + 1,
                             !.market = market1, !.oracle = shocked.oracle,
                             !.new_bsi = Some(new_bsi), !.shock = shock]
            ELSE
            LET traded == trade_loop([market |-> market1, counter |-> run.trade_counter],
                                     run.participants, 1, coins,
                                     shocked.oracle.current_bsi,
                                     config.threshold, run.current_time)
                fires == should_resolve(traded.market, run.current_time)
            IN  [run EXCEPT
                   !.oracle = shocked.oracle,
                   !.trade_counter = traded.counter,
                   !.ticks = @ + 1,
                   !.new_bsi = Some(new_bsi),
                   !.shock = shock,
                   !.shocks = IF IsSome(shock) THEN @ + 1 ELSE @,
                   !.market = IF fires THEN resolve(traded.market, run.current_time)
                              ELSE traded.market,
                   !.current_time = IF fires THEN @
                                    ELSE @ + config.update_frequency_secs]

\* One iteration of the loop (simulator.rs:70-98) with its draws made explicit.
\* ticks counts the iterations begun; new_bsi is the loop's local of that name,
\* the BSI the last advance returned; shock is the shock the last iteration
\* applied, if any, and shocks counts the iterations that applied one.
run_tick(config, run, drift, z, strict, hit, mag, coins) ==
    LET adv == next_bsi(run.oracle, drift, z, strict)
    IN  IF adv.outcome = "Panic"
        THEN [run EXCEPT !.pc = "panicked", !.ticks = @ + 1, !.shock = None]
        ELSE IF adv.outcome = "Err"
        THEN [run EXCEPT !.pc = "failed", !.ret = adv.ret, !.ticks = @ + 1,
                         !.shock = None]
        ELSE
        LET new_bsi == adv.ret[1].val
            market1 == update_bsi(run.market, new_bsi)
            shock == should_apply_shock(run.scenario, run.current_time,
                                        run.start_time, hit, mag)
            shocked == IF IsSome(shock) THEN apply_shock(adv.oracle, Unwrap(shock))
                       ELSE [outcome |-> "Ok", oracle |-> adv.oracle, ret |-> None]
        IN  IF shocked.outcome = "Err"
            THEN [run EXCEPT !.pc = "failed", !.ret = shocked.ret, !.ticks = @ + 1,
                             !.market = market1, !.oracle = shocked.oracle,
                             !.new_bsi = Some(new_bsi), !.shock = shock]
            ELSE
            LET traded == trade_loop([market |-> market1, counter |-> run.trade_counter],
                                     run.participants, 1, coins, new_bsi,
                                     config.threshold, run.current_time)
                fires == should_resolve(traded.market, run.current_time)
            IN  [run EXCEPT
                   !.oracle = shocked.oracle,
                   !.trade_counter = traded.counter,
                   !.ticks = @ + 1,
                   !.new_bsi = Some(new_bsi),
                   !.shock = shock,
                   !.shocks = IF IsSome(shock) THEN @ + 1 ELSE @,
                   !.market = IF fires THEN resolve(traded.market, run.current_time)
                              ELSE traded.market,
                   !.current_time = IF fires THEN @
                                    ELSE @ + config.update_frequency_secs]

\* The end of run (simulator.rs:101-114).
run_finish(run) == [run EXCEPT !.pc = "done", !.ret = Some(Ok(simulation_result(run)))]

(***************************************************************************)
(* strategy.rs: Strategy and StrategyBacktest                              *)
(***************************************************************************)
\* f64::signum: 1.0 for a positive number and for +0.0, -1.0 for a negative one
\* (a difference of two equal numbers is +0.0).
signum(x) == IF x >= 0 THEN One ELSE -One

\* The ThresholdCrossing arm of evaluate (strategy.rs:26-32).
evaluate_threshold_crossing(threshold, current_bsi) ==
    IF current_bsi < threshold THEN One ELSE -One

\* The Momentum arm (strategy.rs:33-43): history[start_idx] is an indexing of a
\* slice, which panics when start_idx is not below the length.
evaluate_momentum(lookback_periods, current_bsi, history) ==
    IF Len(history) < lookback_periods
    THEN [outcome |-> "Ok", signal |-> Some(0)]
    ELSE LET start_idx == Len(history) - lookback_periods
         IN  IF ~(start_idx < Len(history))
             THEN [outcome |-> "Panic", signal |-> None]
             ELSE LET start_bsi == history[start_idx + 1]
                      momentum == current_bsi - start_bsi
                  IN  [outcome |-> "Ok", signal |-> Some(Clamp(momentum, -One, One))]

\* The MeanReversion arm (strategy.rs:44-51).
evaluate_mean_reversion(mean, deviation, current_bsi) ==
    LET distance == current_bsi - mean
    IN  IF Abs(distance) > deviation THEN -signum(distance) ELSE 0

\* A plausible slip: the comparison of the Contrarian arm includes equality.
evaluate_contrarian_inclusive(threshold, current_bsi) ==
    IF current_bsi >= threshold THEN -One ELSE One

\* The Contrarian arm (strategy.rs:52-58).
evaluate_contrarian(threshold, current_bsi) ==
    IF current_bsi > threshold THEN -One ELSE One

\* Strategy::evaluate: the outcome ("Ok" or "Panic") and the signal returned.
evaluate(strategy, current_bsi, history) ==
    CASE strategy.kind = "ThresholdCrossing" ->
            [outcome |-> "Ok",
             signal |-> Some(evaluate_threshold_crossing(strategy.threshold, current_bsi))]
      [] strategy.kind = "Momentum" ->
            evaluate_momentum(strategy.lookback_periods, current_bsi, history)
      [] strategy.kind = "MeanReversion" ->
            [outcome |-> "Ok",
             signal |-> Some(evaluate_mean_reversion(strategy.mean, strategy.deviation,
                                                     current_bsi))]
      [] strategy.kind = "Contrarian" ->
            [outcome |-> "Ok",
             signal |-> Some(evaluate_contrarian(strategy.threshold, current_bsi))]
      [] strategy.kind = "Custom" -> [outcome |-> "Ok", signal |-> Some(0)]

\* StrategyBacktest::new
StrategyBacktest_new(strategy_name) ==
    [strategy_name |-> strategy_name, total_return |-> 0, num_trades |-> 0,
     win_rate |-> 0, sharpe_ratio |-> 0, max_drawdown |-> 0]

\* iter().sum() of a sequence of numbers.
RECURSIVE sum(_)
sum(xs) == IF xs = << >> THEN 0 ELSE Head(xs) + sum(Tail(xs))

\* f64::sqrt of a number x >= 0 given in millionths, as a number of thousandths
\* (rounded down): the r with r * r <= x < (r + 1) * (r + 1), by bisection of
\* lo..hi where lo * lo <= x < hi * hi.
RECURSIVE sqrt_between(_, _, _)
sqrt_between(x, lo, hi) ==
    IF hi - lo <= 1 THEN lo
    ELSE LET mid == (lo + hi) \div 2
         IN  IF mid * mid <= x THEN sqrt_between(x, mid, hi)
             ELSE sqrt_between(x, lo, mid)

\* The roots taken here are of variances of numbers within [-1, 1], below
\* 46340 thousandths.
sqrt(x) == sqrt_between(x, 0, IF x < 46340 THEN x + 1 ELSE 46340)

\* A plausible slip: the peak starts at the first point of the path instead of
\* at 0.0, the value before any return.
RECURSIVE max_drawdown_unanchored(_, _, _, _, _)
max_drawdown_unanchored(returns, i, peak, max_dd, cumulative) ==
    IF i > Len(returns) THEN max_dd
    ELSE LET cumulative1 == cumulative + returns[i]
             peak1 == IF i = 1 \/ cumulative1 > peak THEN cumulative1 ELSE peak
             drawdown == peak1 - cumulative1
             max_dd1 == IF drawdown > max_dd THEN drawdown ELSE max_dd
         IN  max_drawdown_unanchored(returns, i + 1, peak1, max_dd1, cumulative1)

\* The drawdown loop of calculate_metrics (strategy.rs:134-147) from its i-th
\* return on, with the loop's three variables.
RECURSIVE max_drawdown(_, _, _, _, _)
max_drawdown(returns, i, peak, max_dd, cumulative) ==
    IF i > Len(returns) THEN max_dd
    ELSE LET cumulative1 == cumulative + returns[i]
             peak1 == IF cumulative1 > peak THEN cumulative1 ELSE peak
             drawdown == peak1 - cumulative1
             max_dd1 == IF drawdown > max_dd THEN drawdown ELSE max_dd
         IN  max_drawdown(returns, i + 1, peak1, max_dd1, cumulative1)

\* StrategyBacktest::calculate_metrics: the record after the call.  The
\* variance is kept in millionths, so that its root is in thousandths.
calculate_metrics(self, returns) ==
    IF returns = << >> THEN self
    ELSE LET n == Len(returns)
             total_return == sum(returns)
             wins == Cardinality({k \in 1..n : returns[k] > 0})
             mean_return == TruncDiv(total_return, n)
             variance == TruncDiv(sum([k \in 1..n |->
                                          (returns[k] - mean_return)
                                             * (returns[k] - mean_return)]), n)
             std_dev == sqrt(variance)
         IN  [self EXCEPT
                !.total_return = total_return,
                !.win_rate = TruncDiv(wins * One, n),
                !.sharpe_ratio = IF std_dev > 0 THEN TruncDiv(mean_return * One, std_dev)
                                 ELSE 0,
                !.max_drawdown = max_drawdown(returns, 1, 0, 0, 0),
                !.num_trades = n]

(***************************************************************************)
(* analytics.rs: Analytics                                                 *)
(***************************************************************************)
\* PerformanceMetrics::default
PerformanceMetrics_default ==
    [total_simulations |-> 0, successful_resolutions |-> 0, resolution_rate |-> 0,
     avg_final_bsi |-> 0, avg_volume |-> 0, avg_trades |-> 0,
     avg_duration_days |-> 0, bsi_volatility |-> 0]

\* A plausible slip: the filter is dropped, every result counts as resolved.
successful_resolutions_unfiltered(results) == Len(results)

\* results.iter().filter(|r| r.threshold_reached).count() (analytics.rs:17-20)
successful_resolutions(results) ==
    Cardinality({k \in 1..Len(results) : results[k].threshold_reached})

\* Analytics::analyze.  The averages are numbers of thousandths; the variance
\* is kept in millionths, so that its root is in thousandths.
analyze(results) ==
    IF results = << >> THEN PerformanceMetrics_default
    ELSE LET total_runs == Len(results)
             successful == successful_resolutions(results)
             avg_final_bsi ==
                TruncDiv(sum([k \in 1..total_runs |-> results[k].final_bsi]), total_runs)
             avg_volume ==
                TruncDiv(sum([k \in 1..total_runs |-> results[k].total_volume]),
                         total_runs)
             avg_trades ==
                TruncDiv(sum([k \in 1..total_runs |-> results[k].total_trades]) * One,
                         total_runs)
             avg_duration ==
                TruncDiv(sum([k \in 1..total_runs |-> results[k].duration_days * One]),
                         total_runs)
             bsi_variance ==
                TruncDiv(sum([k \in 1..total_runs |->
                                (results[k].final_bsi - avg_final_bsi)
                                   * (results[k].final_bsi - avg_final_bsi)]),
                         total_runs)
         IN  [total_simulations |-> total_runs,
              successful_resolutions |-> successful,
              resolution_rate |-> TruncDiv(successful * One, total_runs),
              avg_final_bsi |-> avg_final_bsi,
              avg_volume |-> avg_volume,
              avg_trades |-> avg_trades,
              avg_duration_days |-> avg_duration,
              bsi_volatility |-> sqrt(bsi_variance)]

(***************************************************************************)
(* Values every specification gives the parts it does not drive.           *)
(***************************************************************************)
RunIds == {1, 2}

IdleRun ==
    [pc |-> "idle", scenario |-> "Custom", start_time |-> 0, end_time |-> 0,
     market |-> << >>, oracle |-> << >>, participants |-> << >>,
     current_time |-> 0, trade_counter |-> 0, ticks |-> 0, new_bsi |-> None,
     shock |-> None, shocks |-> 0, ret |-> None]

NoBuilder == builder = SimulationConfigBuilder_default /\ build_result = None
NoRuns == sim = None /\ runs = [r \in RunIds |-> IdleRun]
NoMarket == mkt = << >> /\ mkt_ret = << >>
NoOracle == orc = << >> /\ orc_ret = << >>
NoStrategy == evaluation = << >> /\ backtest = << >>
NoAnalytics == analysis = << >>

(***************************************************************************)
(* SpecConfig: a caller sets builder options in any order, then builds.    *)
(***************************************************************************)
DaysIn == {0, MaxDays}
ParticipantsIn == {0, MaxParticipants}
UnitIn == {-1, 0, One, One + 1}
HoursIn == {48}
FreqIn == {0, 60}
SeedIn == {42}

InitConfig ==
    NoBuilder /\ NoRuns /\ NoMarket /\ NoOracle /\ NoStrategy /\ NoAnalytics

\* The setters of SimulationConfigBuilder (config.rs:90-135); build consumes
\* the builder, so none runs after it.
SetDurationDays ==
    /\ build_result = None
    /\ \E v \in DaysIn : builder' = [builder EXCEPT !.duration_days = Some(v)]
    /\ UNCHANGED <<build_result, sim, runs, mkt, mkt_ret, orc, orc_ret,
                   evaluation, backtest, analysis>>

SetNumParticipants ==
    /\ build_result = None
    /\ \E v \in ParticipantsIn : builder' = [builder EXCEPT !.num_participants = Some(v)]
    /\ UNCHANGED <<build_result, sim, runs, mkt, mkt_ret, orc, orc_ret,
                   evaluation, backtest, analysis>>

SetInitialBsi ==
    /\ build_result = None
    /\ \E v \in UnitIn : builder' = [builder EXCEPT !.initial_bsi = Some(v)]
    /\ UNCHANGED <<build_result, sim, runs, mkt, mkt_ret, orc, orc_ret,
                   evaluation, backtest, analysis>>

SetVolatility ==
    /\ build_result = None
    /\ \E v \in UnitIn : builder' = [builder EXCEPT !.volatility = Some(v)]
    /\ UNCHANGED <<build_result, sim, runs, mkt, mkt_ret, orc, orc_ret,
                   evaluation, backtest, analysis>>

SetThreshold ==
    /\ build_result = None
    /\ \E v \in UnitIn : builder' = [builder EXCEPT !.threshold = Some(v)]
    /\ UNCHANGED <<build_result, sim, runs, mkt, mkt_ret, orc, orc_ret,
                   evaluation, backtest, analysis>>

SetPersistenceHours ==
    /\ build_result = None
    /\ \E v \in HoursIn : builder' = [builder EXCEPT !.persistence_hours = Some(v)]
    /\ UNCHANGED <<build_result, sim, runs, mkt, mkt_ret, orc, orc_ret,
                   evaluation, backtest, analysis>>

SetUpdateFrequencySecs ==
    /\ build_result = None
    /\ \E v \in FreqIn : builder' = [builder EXCEPT !.update_frequency_secs = Some(v)]
    /\ UNCHANGED <<build_result, sim, runs, mkt, mkt_ret, orc, orc_ret,
                   evaluation, backtest, analysis>>

SetSeed ==
    /\ build_result = None
    /\ \E v \in SeedIn : builder' = [builder EXCEPT !.seed = Some(v)]
    /\ UNCHANGED <<build_result, sim, runs, mkt, mkt_ret, orc, orc_ret,
                   evaluation, backtest, analysis>>

Build ==
    /\ build_result = None
    /\ build_result' = Some(build(builder))
    /\ UNCHANGED <<builder, sim, runs, mkt, mkt_ret, orc, orc_ret,
                   evaluation, backtest, analysis>>

NextConfig ==
    \/ SetDurationDays \/ SetNumParticipants \/ SetInitialBsi \/ SetVolatility
    \/ SetThreshold \/ SetPersistenceHours \/ SetUpdateFrequencySecs \/ SetSeed
    \/ Build

SpecConfig == InitConfig /\ [][NextConfig]_vars

\* The value an option takes at build: the one set, else the documented default.
C10_Eff(f, default) == IF builder[f] = None THEN default ELSE builder[f][1]

C10_Expected ==
    LET d == C10_Eff("duration_days", 30)
        n == C10_Eff("num_participants", 100)
        i == C10_Eff("initial_bsi", 500)
        v == C10_Eff("volatility", 100)
        t == C10_Eff("threshold", 750)
        h == C10_Eff("persistence_hours", 24)
        u == C10_Eff("update_frequency_secs", 300)
    IN  CASE ~(d > 0) -> [tag |-> "Err", kind |-> "InvalidConfig",
                          msg |-> "Duration must be greater than 0"]
          [] ~(n > 0) -> [tag |-> "Err", kind |-> "InvalidConfig",
                          msg |-> "Must have at least 1 participant"]
          [] ~(0 <= i /\ i <= 1000) -> [tag |-> "Err", kind |-> "InvalidConfig",
                          msg |-> "Initial BSI must be between 0.0 and 1.0"]
          [] ~(0 <= v /\ v <= 1000) -> [tag |-> "Err", kind |-> "InvalidConfig",
                          msg |-> "Volatility must be between 0.0 and 1.0"]
          [] ~(0 <= t /\ t <= 1000) -> [tag |-> "Err", kind |-> "InvalidConfig",
                          msg |-> "Threshold must be between 0.0 and 1.0"]
          [] ~(u > 0) -> [tag |-> "Err", kind |-> "InvalidConfig",
                          msg |-> "Update frequency must be greater than 0"]
          [] OTHER -> [tag |-> "Ok",
                       val |-> [duration_days |-> d, num_participants |-> n,
                                initial_bsi |-> i, volatility |-> v, threshold |-> t,
                                persistence_hours |-> h, update_frequency_secs |-> u,
                                seed |-> builder.seed]]

\* C10: build returns a configuration iff duration_days > 0, num_participants > 0,
\* initial_bsi, volatility and threshold lie in [0,1] and update_frequency_secs > 0;
\* otherwise it returns InvalidConfig for the first violated field in that order;
\* unset options take the defaults 30, 100, 0.5, 0.1, 0.75, 24, 300 and the seed
\* stays as the builder holds it (absent unless set).
C10_BuildValidates == build_result # None => build_result[1] = C10_Expected

\* Witness of C10: a build refused with two fields out of range (the first decides)
\* and with the volatility left at its default.
C10_Witness ==
    /\ build_result # None
    /\ build_result[1].tag = "Err"
    /\ builder.num_participants = Some(0)
    /\ builder.threshold = Some(One + 1)
    /\ builder.duration_days # Some(0)
    /\ builder.volatility = None
    /\ builder.seed = None

(***************************************************************************)
(* SpecOracle: a caller drives one OracleSimulator through its operations  *)
(* in any order, with any configuration, target and shock magnitude.       *)
(***************************************************************************)
NoiseLevelIn == {-50, 0, 50}
DriftRateIn == {-10, 0, 100, 1500}
MeanReversionIn == {0, 100}
StartBsiIn == {0, 300, One}
TargetIn == {-500, 700, 3000}
MagnitudeIn == {-2000, -300, 300, 2000}

OracleConfigs ==
    [update_frequency : {300}, noise_level : NoiseLevelIn,
     drift_rate : DriftRateIn, mean_reversion : MeanReversionIn]

\* The BSI values a caller can hold: those BSI::new built.
BsiValues(S) == {BSI_new(v).val : v \in {w \in S : IsOk(BSI_new(w))}}

InitOracle ==
    /\ NoBuilder /\ NoRuns /\ NoMarket /\ NoStrategy /\ NoAnalytics
    /\ \E c \in OracleConfigs, b \in BsiValues(StartBsiIn \cup {-One, 2 * One}) :
          orc = OracleSimulator_new(c, b)
    /\ orc_ret = [op |-> "new", outcome |-> "Ok", ret |-> None, n |-> 0]

\* A panic ends the caller; the model follows at most MaxOps operations.
OracleAlive == orc_ret.outcome # "Panic" /\ orc_ret.n < MaxOps

OracleNextBsi ==
    /\ OracleAlive
    /\ \E drift \in RangeDraws(-orc.config.drift_rate, orc.config.drift_rate),
          z \in NoiseZ, strict \in BOOLEAN :
          LET r == next_bsi(orc, drift, z, strict)
          IN  /\ orc' = r.oracle
              /\ orc_ret' = [op |-> "next_bsi", outcome |-> r.outcome, ret |-> r.ret,
                      n |-> orc_ret.n + 1]
    /\ UNCHANGED <<builder, build_result, sim, runs, mkt, mkt_ret,
                   evaluation, backtest, analysis>>

OracleApplyShock ==
    /\ OracleAlive
    /\ \E magnitude \in MagnitudeIn :
          LET r == apply_shock(orc, magnitude)
          IN  /\ orc' = r.oracle
              /\ orc_ret' = [op |-> "apply_shock", outcome |-> r.outcome, ret |-> r.ret,
                      n |-> orc_ret.n + 1]
    /\ UNCHANGED <<builder, build_result, sim, runs, mkt, mkt_ret,
                   evaluation, backtest, analysis>>

OracleSetTarget ==
    /\ OracleAlive
    /\ \E target \in TargetIn : orc' = set_target(orc, target)
    /\ orc_ret' = [op |-> "set_target", outcome |-> "Ok", ret |-> None,
                      n |-> orc_ret.n + 1]
    /\ UNCHANGED <<builder, build_result, sim, runs, mkt, mkt_ret,
                   evaluation, backtest, analysis>>

OracleReset ==
    /\ OracleAlive
    /\ \E b \in BsiValues(StartBsiIn) : orc' = reset(orc, b)
    /\ orc_ret' = [op |-> "reset", outcome |-> "Ok", ret |-> None,
                      n |-> orc_ret.n + 1]
    /\ UNCHANGED <<builder, build_result, sim, runs, mkt, mkt_ret,
                   evaluation, backtest, analysis>>

\* OracleSimulator::current_bsi (oracle.rs:95-97)
OracleCurrentBsi ==
    /\ OracleAlive
    /\ orc_ret' = [op |-> "current_bsi", outcome |-> "Ok", ret |-> Some(Ok(orc.current_bsi)),
                      n |-> orc_ret.n + 1]
    /\ UNCHANGED <<builder, build_result, sim, runs, mkt, mkt_ret, orc,
                   evaluation, backtest, analysis>>

NextOracle ==
    \/ OracleNextBsi \/ OracleApplyShock \/ OracleSetTarget \/ OracleReset
    \/ OracleCurrentBsi

SpecOracle == InitOracle /\ [][NextOracle]_vars

\* C3: for a non-negative noise level, whatever the drift rate, target, start and
\* shock magnitudes, after any sequence of next_bsi, apply_shock, set_target and
\* reset the oracle's current BSI and every BSI an operation returned lie in [0,1].
C3_OracleInUnitRange ==
    orc.config.noise_level >= 0 =>
        /\ 0 <= orc.current_bsi /\ orc.current_bsi <= 1000
        /\ (orc_ret.ret # None /\ orc_ret.ret[1].tag = "Ok") =>
              (0 <= orc_ret.ret[1].val /\ orc_ret.ret[1].val <= 1000)

\* Witness of C3: a shock beyond the range came back as exactly 1.0 on an oracle
\* that has a target beyond the range too.
C3_Witness ==
    /\ orc.config.noise_level >= 0
    /\ orc_ret.op = "apply_shock"
    /\ orc_ret.ret = Some(Ok(One))
    /\ orc.target_bsi = Some(3000)
    /\ orc.config.drift_rate = 1500

(***************************************************************************)
(* SpecDrift: a caller builds an oracle, sets a target at some point or    *)
(* never, and advances it up to MaxAdvances times (oracle.rs:43-92).       *)
(***************************************************************************)
DriftRatesIn == {0, 100, One, 1500}
DriftNoiseIn == {0, 50}

DriftConfigs ==
    [update_frequency : {300}, noise_level : DriftNoiseIn,
     drift_rate : DriftRatesIn, mean_reversion : MeanReversionIn]

\* start is the BSI the oracle held when it was built or when its target was
\* set, prev the BSI before the last operation, n the number of advances.
InitDrift ==
    /\ NoBuilder /\ NoRuns /\ NoMarket /\ NoStrategy /\ NoAnalytics
    /\ \E c \in DriftConfigs, b \in BsiValues(StartBsiIn) :
          /\ orc = OracleSimulator_new(c, b)
          /\ orc_ret = [op |-> "new", outcome |-> "Ok", ret |-> None, n |-> 0,
                        start |-> b, prev |-> b]

DriftSetTarget ==
    /\ orc_ret.outcome = "Ok"
    /\ orc.target_bsi = None
    /\ \E target \in TargetIn : orc' = set_target(orc, target)
    /\ orc_ret' = [orc_ret EXCEPT !.op = "set_target", !.ret = None,
                                  !.start = orc.current_bsi,
                                  !.prev = orc.current_bsi]
    /\ UNCHANGED <<builder, build_result, sim, runs, mkt, mkt_ret,
                   evaluation, backtest, analysis>>

DriftAdvance ==
    /\ orc_ret.outcome = "Ok"
    /\ orc_ret.n < MaxAdvances
    /\ \E drift \in RangeDraws(-orc.config.drift_rate, orc.config.drift_rate),
          z \in (IF orc.config.noise_level = 0 THEN {0} ELSE NoiseZ) :
          LET r == next_bsi(orc, drift, z, TRUE)
          IN  /\ orc' = r.oracle
              /\ orc_ret' = [orc_ret EXCEPT !.op = "next_bsi", !.outcome = r.outcome,
                                            !.ret = r.ret, !.n = @ + 1,
                                            !.prev = orc.current_bsi]
    /\ UNCHANGED <<builder, build_result, sim, runs, mkt, mkt_ret,
                   evaluation, backtest, analysis>>

NextDrift == DriftSetTarget \/ DriftAdvance

SpecDrift == InitDrift /\ [][NextDrift]_vars

\* The oracle has just advanced with noise level 0, mean-reversion strength 0
\* and a drift rate in (0, 1].
C22_Advanced ==
    /\ orc_ret.op = "next_bsi"
    /\ orc.config.noise_level = 0
    /\ orc.config.mean_reversion = 0
    /\ 0 < orc.config.drift_rate /\ orc.config.drift_rate <= 1000

\* What C22 says of every such advance: with a target the advance draws nothing,
\* so it cannot panic, and it moves the BSI by (target - current) * drift_rate,
\* which leaves it between its previous value and the target, no further from
\* the target than before; without a target it moves the BSI by a draw of the
\* range -drift_rate..drift_rate.
C22_Step ==
    C22_Advanced =>
        LET cur == orc.current_bsi
            prev == orc_ret.prev
            dr == orc.config.drift_rate
        IN  /\ orc_ret.outcome = "Ok"
            /\ orc_ret.ret = <<[tag |-> "Ok", val |-> cur]>>
            /\ orc.target_bsi # << >> =>
                  LET t == orc.target_bsi[1]
                      toward == prev + TruncDiv((t - prev) * dr, 1000)
                  IN  /\ cur = (IF toward < 0 THEN 0 ELSE IF toward > 1000 THEN 1000
                                ELSE toward)
                      /\ (prev <= cur /\ cur <= t) \/ (t <= cur /\ cur <= prev)
                      /\ Abs(t - cur) <= Abs(t - prev)
            /\ orc.target_bsi = << >> =>
                  \E d \in (-dr)..(dr - 1) :
                      cur = (IF prev + d < 0 THEN 0 ELSE IF prev + d > 1000 THEN 1000
                             ELSE prev + d)

\* C22 as stated: the above, and after one or more advances from a BSI below
\* the target the BSI is above the value it had when the target was set.
C22_TargetedDrift ==
    /\ C22_Step
    /\ (C22_Advanced /\ orc.target_bsi # << >>) =>
          (orc_ret.start < orc.target_bsi[1] => orc.current_bsi > orc_ret.start)

\* C22 as amended: the BSI rises above its starting value when that value is
\* below the target and below 1.0; an oracle at 1.0 with a target beyond 1.0
\* stays at 1.0, where the clamp holds it.
C22_TargetedDriftClamped ==
    /\ C22_Step
    /\ (C22_Advanced /\ orc.target_bsi # << >>) =>
          /\ (orc_ret.start < orc.target_bsi[1] /\ orc_ret.start < 1000) =>
                orc.current_bsi > orc_ret.start
          /\ (orc_ret.start < orc.target_bsi[1] /\ orc_ret.start = 1000) =>
                orc.current_bsi = orc_ret.start

\* Witness of C22: three advances took an oracle from 0.3 toward its target 0.7
\* by a tenth of the remaining distance each (0.34, 0.376, 0.408).
C22_Witness ==
    /\ C22_Advanced
    /\ orc.target_bsi = <<700>>
    /\ orc_ret.start = 300
    /\ orc_ret.n = 3
    /\ orc_ret.prev = 376
    /\ orc.current_bsi = 408

(***************************************************************************)
(* SpecMarket: a caller drives one Market through its public operations in *)
(* any order and with any arguments (market.rs:30-98).                     *)
(***************************************************************************)
MarketBsiIn == {0, 749, 750, One}
MarketThresholdIn == {750, One + 1}
IntervalIn == {TimeInterval_new(100, 200), TimeInterval_new(200, 100)}
NowIn == {99, 100, 200, 201}

TradeIn ==
    {[id |-> "trade-1", participant_id |-> "participant-0", trade_type |-> "Open",
      size |-> 50000, price |-> 500, timestamp |-> 100, bsi_at_trade |-> 500],
     [id |-> "trade-2", participant_id |-> "participant-1", trade_type |-> "Close",
      size |-> 0, price |-> 2000, timestamp |-> 99, bsi_at_trade |-> 750]}

PositionIn ==
    {[participant_id |-> "participant-0", size |-> 50000, entry_price |-> 500,
      entry_time |-> 100, position_type |-> "Long"]}

\* mkt_ret: the last operation, its time argument, what it returned, and the
\* history the claims speak of: the number of operations and of resolve calls,
\* and the trades passed to add_trade so far, in call order.
MarketRet(op, now, ret, resolves) ==
    [op |-> op, now |-> now, ret |-> ret, n |-> mkt_ret.n + 1, resolves |-> resolves,
     added |-> mkt_ret.added]

InitMarket ==
    /\ NoBuilder /\ NoRuns /\ NoOracle /\ NoStrategy /\ NoAnalytics
    /\ \E b \in BsiValues(MarketBsiIn), t \in MarketThresholdIn, i \in IntervalIn :
          mkt = Market_new("test-market", b, t, i)
    /\ mkt_ret = [op |-> "new", now |-> 0, ret |-> None, n |-> 0, resolves |-> 0,
                  added |-> << >>]

MarketAlive == mkt_ret.n < MaxOps

MarketUpdateBsi ==
    /\ MarketAlive
    /\ \E b \in BsiValues(MarketBsiIn) : mkt' = update_bsi(mkt, b)
    /\ mkt_ret' = MarketRet("update_bsi", 0, None, mkt_ret.resolves)
    /\ UNCHANGED <<builder, build_result, sim, runs, orc, orc_ret,
                   evaluation, backtest, analysis>>

MarketAddTrade ==
    /\ MarketAlive
    /\ \E t \in TradeIn :
          /\ mkt' = add_trade(mkt, t)
          /\ mkt_ret' = [MarketRet("add_trade", 0, None, mkt_ret.resolves)
                           EXCEPT !.added = Append(@, t)]
    /\ UNCHANGED <<builder, build_result, sim, runs, orc, orc_ret,
                   evaluation, backtest, analysis>>

MarketAddPosition ==
    /\ MarketAlive
    /\ \E p \in PositionIn : mkt' = add_position(mkt, p)
    /\ mkt_ret' = MarketRet("add_position", 0, None, mkt_ret.resolves)
    /\ UNCHANGED <<builder, build_result, sim, runs, orc, orc_ret,
                   evaluation, backtest, analysis>>

MarketShouldResolve ==
    /\ MarketAlive
    /\ \E now \in NowIn :
          mkt_ret' = MarketRet("should_resolve", now, Some(should_resolve(mkt, now)),
                               mkt_ret.resolves)
    /\ UNCHANGED <<builder, build_result, sim, runs, mkt, orc, orc_ret,
                   evaluation, backtest, analysis>>

MarketResolve ==
    /\ MarketAlive
    /\ \E now \in NowIn :
          /\ mkt' = resolve(mkt, now)
          /\ mkt_ret' = MarketRet("resolve", now, None, mkt_ret.resolves + 1)
    /\ UNCHANGED <<builder, build_result, sim, runs, orc, orc_ret,
                   evaluation, backtest, analysis>>

MarketStatistics ==
    /\ MarketAlive
    /\ mkt_ret' = MarketRet("statistics", mkt_ret.now, Some(statistics(mkt)),
                            mkt_ret.resolves)
    /\ UNCHANGED <<builder, build_result, sim, runs, mkt, orc, orc_ret,
                   evaluation, backtest, analysis>>

NextMarket ==
    \/ MarketUpdateBsi \/ MarketAddTrade \/ MarketAddPosition
    \/ MarketShouldResolve \/ MarketResolve \/ MarketStatistics

SpecMarket == InitMarket /\ [][NextMarket]_vars

\* C4: should_resolve(now) is true iff current_bsi >= threshold and
\* interval.start <= now <= interval.end (both ends and bsi == threshold included),
\* whatever the market's state, trades and positions, and it changes nothing.
C4_ShouldResolve ==
    /\ [](mkt_ret.op = "should_resolve" =>
            (mkt_ret.ret[1] <=> (/\ mkt.current_bsi >= mkt.threshold
                                 /\ mkt.time_interval.start <= mkt_ret.now
                                 /\ mkt_ret.now <= mkt.time_interval.end)))
    /\ [][mkt_ret'.op = "should_resolve" => mkt' = mkt]_vars

\* Witness of C4: true at now == interval.end with bsi == threshold, on a market
\* that is already Resolved and holds a trade.
C4_Witness ==
    /\ mkt_ret.op = "should_resolve"
    /\ mkt_ret.ret = Some(TRUE)
    /\ mkt_ret.now = mkt.time_interval.end
    /\ mkt.current_bsi = mkt.threshold
    /\ mkt.state = "Resolved"
    /\ Len(mkt.trades) > 0

\* C5: a new market is Active; under update_bsi, add_trade, add_position,
\* should_resolve, statistics and resolve the state is Active or Resolved, never
\* Expired or Paused; it is Resolved iff resolve was called at least once; and
\* once Resolved it stays Resolved.
C5_StateMachine ==
    /\ [](/\ mkt.state \in {"Active", "Resolved"}
          /\ (mkt.state = "Resolved" <=> mkt_ret.resolves >= 1)
          /\ (mkt_ret.op = "new" => mkt.state = "Active"))
    /\ [][mkt.state = "Resolved" => mkt'.state = "Resolved"]_vars

\* Witness of C5: a Resolved market went through a later BSI update.
C5_Witness ==
    /\ mkt.state = "Resolved"
    /\ mkt_ret.op = "update_bsi"
    /\ mkt_ret.resolves = 2

\* C6: statistics().time_to_resolution is present iff the market is Resolved, and
\* then equals resolution_time - interval.start in seconds, resolution_time being
\* the time argument of the resolve call; while Active it is absent.
C6_TimeToResolution ==
    /\ (statistics(mkt).time_to_resolution # None <=> mkt.state = "Resolved")
    /\ (mkt.state = "Active" => statistics(mkt).time_to_resolution = None)
    /\ (mkt_ret.op = "resolve" =>
          /\ mkt.resolution_time = <<mkt_ret.now>>
          /\ statistics(mkt).time_to_resolution
                = <<mkt_ret.now - mkt.time_interval.start>>)
    /\ (mkt_ret.op = "statistics" /\ mkt.state = "Resolved") =>
          mkt_ret.ret[1].time_to_resolution
                = <<mkt.resolution_time[1] - mkt.time_interval.start>>
    /\ (mkt_ret.op = "statistics" /\ mkt.state # "Resolved") =>
          mkt_ret.ret[1].time_to_resolution = << >>

\* Witness of C6: a statistics snapshot of a Resolved market whose resolution
\* time differs from the interval start.
C6_Witness ==
    /\ mkt_ret.op = "statistics"
    /\ mkt.state = "Resolved"
    /\ mkt_ret.ret[1].time_to_resolution # << >>
    /\ mkt_ret.ret[1].time_to_resolution[1] # 0

\* The sum of the sizes of a sequence of trades.
C19_Volume(trades) == sum([k \in 1..Len(trades) |-> trades[k].size])

\* C19: after any sequence of Market operations the trade log holds exactly the
\* trades passed to add_trade, in call order, and total_volume is the sum of
\* their sizes; update_bsi, add_position, should_resolve, resolve and statistics
\* leave the log and the volume unchanged; so total_trades and total_volume of
\* the statistics snapshot and of a SimulationResult made from the market are
\* the log's length and that sum.
C19_TradeLedger ==
    /\ [](LET result == simulation_result([IdleRun EXCEPT !.market = mkt])
          IN  /\ mkt.trades = mkt_ret.added
              /\ mkt.total_volume = C19_Volume(mkt_ret.added)
              /\ result.total_trades = Len(mkt_ret.added)
              /\ result.total_volume = C19_Volume(mkt_ret.added)
              /\ result.statistics.total_trades = result.total_trades
              /\ result.statistics.total_volume = result.total_volume
              /\ mkt_ret.op = "statistics" =>
                    /\ mkt_ret.ret[1].total_trades = Len(mkt_ret.added)
                    /\ mkt_ret.ret[1].total_volume = C19_Volume(mkt_ret.added))
    /\ [][mkt_ret'.op # "add_trade" =>
            (mkt'.trades = mkt.trades /\ mkt'.total_volume = mkt.total_volume)]_vars

\* Witness of C19: a statistics snapshot of a Resolved market to which two
\* different trades were added, the one of size 0 first.
C19_Witness ==
    /\ mkt_ret.op = "statistics"
    /\ mkt.state = "Resolved"
    /\ Len(mkt_ret.added) = 2
    /\ mkt_ret.added[1].size = 0
    /\ mkt_ret.added[2].size = 50000
    /\ mkt_ret.ret[1].total_volume = 50000

(***************************************************************************)
(* Spec: one call of Simulator::run on a simulator whose configuration     *)
(* came out of the builder (or was written as a struct literal, which      *)
(* nothing validates), for any scenario and any random draws.              *)
(***************************************************************************)
\* builder().duration_days(d). ... .seed(42).build()
Chain(d, n, i, v, t, u) ==
    build([SimulationConfigBuilder_default EXCEPT
             !.duration_days = Some(d), !.num_participants = Some(n),
             !.initial_bsi = Some(i), !.volatility = Some(v),
             !.threshold = Some(t), !.update_frequency_secs = Some(u),
             !.seed = Some(42)])

\* (initial_bsi, volatility, threshold): the test's values and each field at
\* both ends of its range.
ValueCombos ==
    {<<500, 200, 750>>, <<0, 200, 750>>, <<One, 200, 750>>, <<500, 0, 750>>,
     <<500, One, 750>>, <<500, 200, 0>>, <<500, 200, One>>}

\* Update periods of a day and of a little more than a day.
FreqRunIn == {SecsPerDay, 100000}

\* The value combinations the runs of more than a day use.
LongValueCombos ==
    {<<500, 200, 750>>, <<500, 0, 750>>, <<500, 200, 0>>}

\* One-day runs of up to MaxParticipants participants with every value
\* combination, longer runs of one participant with a period that does not
\* divide the duration, and the rejected zero counts.
BuiltConfigs ==
    LET short == {Chain(1, n, c[1], c[2], c[3], u) :
                     n \in 0..MaxParticipants, c \in ValueCombos, u \in FreqRunIn}
        long == {Chain(d, 1, c[1], c[2], c[3], 100000) :
                     d \in (0..MaxDays) \ {1}, c \in LongValueCombos}
    IN  {r.val : r \in {x \in short \cup long : IsOk(x)}}

\* SimulationConfig { .. } literals (config.rs:8-25, all fields public).
LiteralConfigs ==
    {[duration_days |-> 1, num_participants |-> 1, initial_bsi |-> i,
      volatility |-> v, threshold |-> 750, persistence_hours |-> 24,
      update_frequency_secs |-> SecsPerDay, seed |-> None] :
        i \in {-100, 500, 1500}, v \in {-200, 200}}

\* Runs long enough to reach the scheduled shocks, with more than one tick in
\* the day of the shock.  Eleven days without volatility, two ticks a day: the
\* BSI of a targeted run then moves by mean reversion and shocks alone, and the
\* threshold 0.55 is near it, so that the participant seldom trades.  Eight days
\* with a volatility of 0.01 and a tick every 0.88 day (the ninth and the tenth
\* tick fall in day 7), as a literal without participants.
ShockConfigs ==
    {Chain(11, 1, 500, 0, 550, 43200).val,
     [duration_days |-> 8, num_participants |-> 0, initial_bsi |-> 500,
      volatility |-> 10, threshold |-> 750, persistence_hours |-> 24,
      update_frequency_secs |-> 76032, seed |-> None]}

\* The scenarios the long runs are followed for: those with a scheduled shock.
ScenariosFor(config) ==
    IF config \in ShockConfigs THEN {"FlashCrash", "SentimentReversal"} ELSE Scenarios

\* A one-day run that starts at its threshold and whose update period is two
\* days, so that its only tick carries the simulated time past the end.
CoarseConfigs == {Chain(1, 1, Half, 200, Half, 2 * SecsPerDay).val}

\* A literal the builder would refuse: no day to simulate, so no tick runs,
\* and an initial BSI above the threshold.
ZeroDayConfigs ==
    {[duration_days |-> 0, num_participants |-> 1, initial_bsi |-> 800,
      volatility |-> 200, threshold |-> 750, persistence_hours |-> 24,
      update_frequency_secs |-> SecsPerDay, seed |-> None]}

RunConfigs ==
    BuiltConfigs \cup LiteralConfigs \cup ShockConfigs \cup CoarseConfigs
        \cup ZeroDayConfigs

\* Utc::now() at the start of a run.
NowRunIn == {1000}
RiskToleranceIn == {100, 500}

InitRun ==
    /\ NoBuilder /\ NoMarket /\ NoOracle /\ NoStrategy /\ NoAnalytics
    /\ \E c \in RunConfigs : sim = Simulator_new(c)
    /\ runs = [r \in RunIds |-> IdleRun]

RunBegin(r, scenarios, nows) ==
    /\ runs[r].pc = "idle"
    /\ \E scenario \in scenarios, now \in nows,
          rts \in [1..sim.config.num_participants -> RiskToleranceIn] :
          runs' = [runs EXCEPT ![r] = run_begin(sim.config, scenario, now, rts)]
    /\ UNCHANGED <<builder, build_result, sim, mkt, mkt_ret, orc, orc_ret,
                   evaluation, backtest, analysis>>

\* The draws a tick can make: a draw the tick never makes is fixed.
DriftIn(run) ==
    IF IsSome(run.oracle.target_bsi) THEN {0}
    ELSE RangeDraws(-run.oracle.config.drift_rate, run.oracle.config.drift_rate)
StrictIn(run) == IF run.oracle.config.noise_level < 0 THEN BOOLEAN ELSE {TRUE}
HitIn(run) == IF run.scenario = "HighVolatility" THEN BOOLEAN ELSE {FALSE}
\* The magnitudes drawn are the two ends of the range -0.2..0.2.
MagIn(hit) == IF hit THEN RangeDraws(-200, 200) \ {0} ELSE {0}

\* A plausible slip: the oracle is one object shared by the runs of a
\* simulator, so a tick of one run also moves the oracle the others read.
Tick_shared_oracle(r) ==
    /\ runs[r].pc = "loop"
    /\ loop_continues(runs[r])
    /\ \E drift \in DriftIn(runs[r]), z \in NoiseZ, strict \in StrictIn(runs[r]),
          hit \in HitIn(runs[r]),
          coins \in [1..Len(runs[r].participants) -> BOOLEAN] :
          \E mag \in MagIn(hit) :
             LET mine == run_tick(sim.config, runs[r], drift, z, strict, hit, mag, coins)
             IN  runs' = [q \in RunIds |->
                            IF q = r THEN mine
                            ELSE IF runs[q].pc = "loop"
                            THEN [runs[q] EXCEPT !.oracle = mine.oracle]
                            ELSE runs[q]]
    /\ UNCHANGED <<builder, build_result, sim, mkt, mkt_ret, orc, orc_ret,
                   evaluation, backtest, analysis>>

Tick(r) ==
    /\ runs[r].pc = "loop"
    /\ loop_continues(runs[r])
    /\ \E drift \in DriftIn(runs[r]), z \in NoiseZ, strict \in StrictIn(runs[r]),
          hit \in HitIn(runs[r]),
          coins \in [1..Len(runs[r].participants) -> BOOLEAN] :
          \E mag \in MagIn(hit) :
             runs' = [runs EXCEPT
                        ![r] = run_tick(sim.config, runs[r], drift, z, strict, hit,
                                        mag, coins)]
    /\ UNCHANGED <<builder, build_result, sim, mkt, mkt_ret, orc, orc_ret,
                   evaluation, backtest, analysis>>

Finish(r) ==
    /\ runs[r].pc = "loop"
    /\ ~loop_continues(runs[r])
    /\ runs' = [runs EXCEPT ![r] = run_finish(runs[r])]
    /\ UNCHANGED <<builder, build_result, sim, mkt, mkt_ret, orc, orc_ret,
                   evaluation, backtest, analysis>>

\* The caller drops the future of a run that has not returned: the locals of
\* the run are discarded and it returns nothing.
Cancel(r) ==
    /\ runs[r].pc = "loop"
    /\ runs' = [runs EXCEPT ![r] = [IdleRun EXCEPT !.pc = "cancelled"]]
    /\ UNCHANGED <<builder, build_result, sim, mkt, mkt_ret, orc, orc_ret,
                   evaluation, backtest, analysis>>

Next == RunBegin(1, ScenariosFor(sim.config), NowRunIn) \/ Tick(1) \/ Finish(1)

Spec == InitRun /\ [][Next]_vars

\* A run ended: it returned (done, failed) or it panicked.
Finished(r) == runs[r].pc \in {"done", "failed", "panicked"}

\* The configuration is one the builder accepts.
Accepted == IsOk(validate(sim.config))

\* C2: for every configuration the builder accepts, every scenario and every
\* draw, run ends by returning a SimulationResult or a SimulatorError: no step
\* of it panics.
C2_NoPanic == Accepted => runs[1].pc # "panicked"

\* C7 as stated: the loop executes at most
\* duration_days * 86400 / update_frequency_secs iterations.
C7_TickBoundQuotient ==
    Accepted =>
        runs[1].ticks * sim.config.update_frequency_secs
            <= sim.config.duration_days * 86400

\* C7 as amended: for every accepted configuration and scenario the loop ends,
\* after at most the quotient duration_days * 86400 / update_frequency_secs
\* rounded up to a whole number of iterations: the count never passes that bound,
\* and every iteration that does not end the loop moves the simulated time
\* forward or resolves the market, which ends it.
C7_Terminates ==
    /\ [](Accepted =>
            \/ runs[1].ticks = 0
            \/ (runs[1].ticks - 1) * sim.config.update_frequency_secs
                  < sim.config.duration_days * 86400)
    /\ [][(Accepted /\ runs[1].pc = "loop" /\ runs'[1].pc = "loop") =>
            /\ runs'[1].ticks = runs[1].ticks + 1
            /\ \/ runs'[1].current_time > runs[1].current_time
               \/ (runs[1].market.state = "Active"
                      /\ runs'[1].market.state = "Resolved")]_vars

\* Witness of C7: a run that ended after one iteration more than the quotient.
C7_Witness ==
    /\ Accepted
    /\ runs[1].pc = "done"
    /\ runs[1].ticks = 2
    /\ sim.config.duration_days = 2
    /\ runs[1].ticks * sim.config.update_frequency_secs
          > sim.config.duration_days * 86400

\* C8: in every returned SimulationResult, threshold_reached is true iff the
\* market was resolved in the run, at a tick time strictly before end_time; then
\* resolution_time is present with start_time <= resolution_time < end_time;
\* otherwise resolution_time and statistics.time_to_resolution are absent; and
\* final_bsi is in [0,1] either way.
C8_ThresholdReached ==
    runs[1].pc = "done" =>
        LET run == runs[1]
            res == run.ret[1].val
            tick_time == run.start_time
                            + (run.ticks - 1) * sim.config.update_frequency_secs
        IN  /\ res.threshold_reached \in BOOLEAN
            /\ res.threshold_reached <=> run.market.state = "Resolved"
            /\ res.threshold_reached =>
                  /\ res.resolution_time # << >>
                  /\ res.resolution_time[1] = tick_time
                  /\ run.start_time <= res.resolution_time[1]
                  /\ res.resolution_time[1] < run.end_time
            /\ ~res.threshold_reached =>
                  /\ res.resolution_time = << >>
                  /\ res.statistics.time_to_resolution = << >>
            /\ 0 <= res.final_bsi /\ res.final_bsi <= 1000

\* Witness of C8: a result whose market resolved at the second tick.
C8_Witness ==
    /\ runs[1].pc = "done"
    /\ runs[1].ret[1].val.threshold_reached
    /\ runs[1].ticks = 2
    /\ runs[1].ret[1].val.resolution_time[1] > runs[1].start_time

\* C9: when the initial BSI construction, an advance or a shock fails, run
\* returns that failure and no SimulationResult: a rejected initial BSI ends the
\* run before any tick with InvalidConfig carrying BSI::new's message, a failure
\* inside a tick ends it with OracleError, and a SimulationResult is returned
\* only by a run in which nothing failed.
C9_AtomicFailure ==
    runs[1].pc # "idle" =>
        LET run == runs[1]
        IN  /\ ~(0 <= sim.config.initial_bsi /\ sim.config.initial_bsi <= 1000) =>
                  /\ run.pc = "failed"
                  /\ run.ticks = 0
                  /\ run.ret = <<[tag |-> "Err", kind |-> "InvalidConfig",
                                  msg |-> "BSI value must be between 0.0 and 1.0"]>>
            /\ run.pc = "failed" =>
                  /\ run.ret # << >>
                  /\ run.ret[1].tag = "Err"
                  /\ run.ticks > 0 => run.ret[1].kind = "OracleError"
            /\ (run.ret # << >> /\ run.ret[1].tag = "Ok") => run.pc = "done"
            /\ run.pc = "done" => (run.ret # << >> /\ run.ret[1].tag = "Ok")

\* Witness of C9: an advance failed in the first tick and run returned its
\* OracleError.
C9_Witness ==
    /\ runs[1].pc = "failed"
    /\ runs[1].ticks = 1
    /\ runs[1].ret[1].kind = "OracleError"

\* C11: BSI::new(v) succeeds iff 0 <= v <= 1, both ends accepted (a run stops
\* before its first tick with the factory's error exactly when the configured
\* initial BSI is outside that range), so every BSI a run holds lies in [0,1]:
\* the oracle's current BSI, the market's current BSI, the BSI snapshot and the
\* price of every trade, and final_bsi of the result.
C11_BsiInUnitRange ==
    runs[1].pc # "idle" =>
        LET run == runs[1]
            InUnit(v) == 0 <= v /\ v <= 1000
        IN  /\ (run.pc = "failed" /\ run.ticks = 0) <=> ~InUnit(sim.config.initial_bsi)
            /\ ~(run.pc = "failed" /\ run.ticks = 0) =>
                  /\ InUnit(run.oracle.current_bsi)
                  /\ InUnit(run.market.current_bsi)
                  /\ \A k \in 1..Len(run.market.trades) :
                        /\ InUnit(run.market.trades[k].bsi_at_trade)
                        /\ InUnit(run.market.trades[k].price)
            /\ run.pc = "done" => InUnit(run.ret[1].val.final_bsi)

\* Witness of C11: a run that started at exactly 1.0 returned a result whose
\* market holds a trade.
C11_Witness ==
    /\ runs[1].pc = "done"
    /\ sim.config.initial_bsi = One
    /\ Len(runs[1].market.trades) > 0
    /\ runs[1].ret[1].val.final_bsi < One

\* C18: in a FlashCrash run the -0.3 shock is applied on at most one tick and
\* on no tick whose elapsed time is below 7 days or at least 8 days; in a
\* SentimentReversal run likewise the +0.4 shock and days 10 to 11; a shock of a
\* HighVolatility run has a magnitude within [-0.2, 0.2]; and no tick of the
\* seven other scenarios applies a shock.
C18_ShockSchedule ==
    runs[1].ticks > 0 =>
        LET run == runs[1]
            elapsed == (run.ticks - 1) * sim.config.update_frequency_secs
            scheduled(magnitude, day) ==
                /\ run.shocks <= 1
                /\ run.shock # << >> =>
                      /\ run.shock = <<magnitude>>
                      /\ day * 86400 <= elapsed
                      /\ elapsed < (day + 1) * 86400
        IN  CASE run.scenario = "FlashCrash" -> scheduled(-300, 7)
              [] run.scenario = "SentimentReversal" -> scheduled(400, 10)
              [] run.scenario = "HighVolatility" ->
                    run.shock # << >> => (-200 <= run.shock[1] /\ run.shock[1] <= 200)
              [] OTHER -> run.shock = << >> /\ run.shocks = 0

\* The trades a step appended to the log of the run.
C20_Appended(old, new) ==
    SubSeq(new.market.trades, Len(old.market.trades) + 1, Len(new.market.trades))

\* C20: every trade a tick appends has kind Open, a size >= 0, a price equal to
\* its BSI snapshot, which is the BSI the oracle's advance returned in that tick
\* (the BSI the market was given, not the oracle's after a shock), and the
\* tick's simulated time as timestamp; a tick polls the participants once each,
\* in order, so it appends at most one trade per participant, and it leaves
\* the trades already in the log as they are.
C20_TickTrades ==
    [][(runs[1].pc = "loop" /\ runs'[1].ticks = runs[1].ticks + 1
          /\ runs'[1].pc = "loop") =>
        LET old == runs[1]
            new == runs'[1]
            added == C20_Appended(old, new)
            advanced == \E drift \in DriftIn(old), z \in NoiseZ, strict \in StrictIn(old) :
                           LET a == next_bsi(old.oracle, drift, z, strict)
                           IN  a.outcome = "Ok" /\ a.ret = <<Ok(new.market.current_bsi)>>
        IN  /\ Len(new.market.trades) >= Len(old.market.trades)
            /\ SubSeq(new.market.trades, 1, Len(old.market.trades)) = old.market.trades
            /\ Len(added) <= sim.config.num_participants
            /\ new.trade_counter = Len(new.market.trades)
            /\ \A k \in 1..Len(added) :
                  /\ added[k].trade_type = "Open"
                  /\ added[k].size >= 0
                  /\ added[k].price = added[k].bsi_at_trade
                  /\ added[k].bsi_at_trade = new.market.current_bsi
                  /\ advanced
                  /\ added[k].timestamp = old.current_time
                  /\ added[k].id = <<"trade", Len(old.market.trades) + k>>
                  /\ \E i \in 1..Len(old.participants) :
                        added[k].participant_id = old.participants[i].id
                  /\ \A l \in 1..Len(added) :
                        k < l => added[k].participant_id[2] < added[l].participant_id[2]]_vars

\* Witness of C20: a first tick in which both participants traded and a shock
\* moved the oracle's BSI away from the one the trades were made at.
C20_Witness ==
    /\ runs[1].pc = "loop"
    /\ runs[1].ticks = 1
    /\ Len(runs[1].market.trades) = 2
    /\ runs[1].shock # << >>
    /\ runs[1].oracle.current_bsi # runs[1].market.current_bsi
    /\ runs[1].market.trades[2].bsi_at_trade = runs[1].market.current_bsi

\* C21: only an upward crossing of the threshold resolves the market: at the
\* tick that resolves it, the BSI the market held before the tick's advance (the
\* previous tick's, or the initial BSI at the first tick) is below the threshold
\* and the BSI after the advance is at or above it.
C21_UpwardCrossingOnly ==
    [][(/\ runs[1].pc = "loop" /\ runs'[1].pc = "loop"
        /\ runs[1].market.state = "Active"
        /\ runs'[1].market.state = "Resolved") =>
            /\ runs[1].market.current_bsi < sim.config.threshold
            /\ runs'[1].market.current_bsi >= sim.config.threshold]_vars

\* C24: a run never populates positions: at every tick the market's position
\* list and the position list of every participant are empty while trades
\* accumulate, and statistics.active_positions of a returned result is 0.
C24_NoPositions ==
    (runs[1].pc # "idle" /\ ~(runs[1].pc = "failed" /\ runs[1].ticks = 0)) =>
        /\ runs[1].market.positions = << >>
        /\ \A i \in 1..Len(runs[1].participants) :
              runs[1].participants[i].positions = << >>
        /\ runs[1].pc = "done" =>
              runs[1].ret[1].val.statistics.active_positions = 0

\* Witness of C24: a run returned a result with two trades and no position.
C24_Witness ==
    /\ runs[1].pc = "done"
    /\ runs[1].ret[1].val.total_trades = 2
    /\ Len(runs[1].market.trades) = 2
    /\ runs[1].ret[1].val.statistics.active_positions = 0
    /\ Len(runs[1].participants) = 2

C26_ShockMovesOracleOnly ==
    (runs[1].pc \in {"loop", "done"} /\ runs[1].ticks > 0) =>
        LET run == runs[1]
            advanced == run.new_bsi[1]
            shifted == advanced + run.shock[1]
            tick_time == run.start_time
                            + (run.ticks - 1) * sim.config.update_frequency_secs
        IN  /\ run.market.current_bsi = advanced
            /\ run.oracle.current_bsi =
                  (IF run.shock = << >> THEN advanced
                   ELSE IF shifted < 0 THEN 0 ELSE IF shifted > 1000 THEN 1000
                   ELSE shifted)
            /\ run.oracle.config = oracle_config(sim.config)
            /\ run.oracle.target_bsi = scenario_target(run.scenario, sim.config)
            /\ run.market.state = "Resolved" <=> advanced >= sim.config.threshold
            /\ \A k \in 1..Len(run.market.trades) :
                  run.market.trades[k].timestamp = tick_time =>
                      /\ run.market.trades[k].price = advanced
                      /\ run.market.trades[k].bsi_at_trade = advanced
            /\ run.pc = "done" =>
                  /\ run.ret[1].val.final_bsi = advanced
                  /\ run.ret[1].val.statistics.current_bsi = advanced

\* Witness of C26: the final tick resolved the market, a trade was made in it,
\* and its shock took the oracle's BSI below the threshold; the result reports
\* the BSI of the advance.
C26_Witness ==
    /\ runs[1].pc = "done"
    /\ runs[1].shock # << >>
    /\ runs[1].ret[1].val.threshold_reached
    /\ runs[1].oracle.current_bsi < sim.config.threshold
    /\ runs[1].ret[1].val.final_bsi >= sim.config.threshold
    /\ runs[1].ret[1].val.total_trades > 0

\* C27: within a run the market becomes Resolved at most once and nothing
\* changes it afterwards: every tick starts on an Active market and resolves it
\* exactly when the BSI its advance returned is >= threshold, after appending
\* its trades; after the resolve no BSI update, trade or second resolve occurs,
\* the run only returns; so every logged trade has a timestamp <=
\* resolution_time, timestamps never decrease along the log, and
\* resolution_time, once set, is the time of the resolving tick for good.
C27_ResolvedOnce ==
    /\ [](runs[1].pc \in {"loop", "done"} =>
            LET market == runs[1].market
                tick_time == runs[1].start_time
                                + (runs[1].ticks - 1) * sim.config.update_frequency_secs
            IN  /\ market.state \in {"Active", "Resolved"}
                /\ market.state = "Resolved" <=> market.resolution_time # << >>
                /\ market.state = "Resolved" =>
                      /\ runs[1].ticks > 0
                      /\ market.resolution_time = <<tick_time>>
                      /\ runs[1].current_time = tick_time
                      /\ \A k \in 1..Len(market.trades) :
                            market.trades[k].timestamp <= market.resolution_time[1]
                /\ \A k, l \in 1..Len(market.trades) :
                      k < l => market.trades[k].timestamp <= market.trades[l].timestamp)
    /\ [][(runs[1].pc = "loop" /\ runs[1].market.state = "Resolved") =>
            /\ runs'[1].pc = "done"
            /\ runs'[1].market = runs[1].market
            /\ runs'[1].oracle = runs[1].oracle
            /\ runs'[1].ticks = runs[1].ticks
            /\ runs'[1].ret[1].val.resolution_time = runs[1].market.resolution_time]_vars
    /\ [][(runs[1].pc = "loop" /\ runs'[1].pc = "loop"
             /\ runs'[1].ticks = runs[1].ticks + 1) =>
            LET old == runs[1].market
                new == runs'[1].market
            IN  /\ old.state = "Active"
                /\ new.state = "Resolved" <=>
                      runs'[1].new_bsi[1] >= sim.config.threshold
                /\ Len(new.trades) >= Len(old.trades)
                /\ SubSeq(new.trades, 1, Len(old.trades)) = old.trades
                /\ \A k \in (Len(old.trades) + 1)..Len(new.trades) :
                      new.trades[k].timestamp = runs[1].current_time
                /\ new.state = "Resolved" =>
                      new.resolution_time = <<runs[1].current_time>>]_vars

\* Witness of C27: a run resolved at its second tick returned; its log holds a
\* trade of the first tick and a trade made at the resolution time.
C27_Witness ==
    /\ runs[1].pc = "done"
    /\ runs[1].market.state = "Resolved"
    /\ runs[1].ticks = 2
    /\ Len(runs[1].market.trades) = 2
    /\ runs[1].market.trades[1].timestamp < runs[1].market.resolution_time[1]
    /\ runs[1].market.trades[2].timestamp = runs[1].market.resolution_time[1]

\* C28: for every accepted configuration and scenario the duration_days of the
\* returned result never exceeds the configured duration_days: it equals the
\* configured duration_days when the run ends without resolution and the whole
\* number of days between start_time and resolution_time when it resolves.
C28_DurationWithinConfigured ==
    (runs[1].pc = "done" /\ Accepted) =>
        LET res == runs[1].ret[1].val
        IN  /\ res.duration_days <= sim.config.duration_days
            /\ ~res.threshold_reached => res.duration_days = sim.config.duration_days
            /\ res.threshold_reached =>
                  res.duration_days
                      = (res.resolution_time[1] - runs[1].start_time) \div 86400

(***************************************************************************)
(* SpecPair: two calls of run on the same Simulator, their ticks           *)
(* interleaved in any order.                                               *)
(***************************************************************************)
\* The configuration of the module's test shortened to a day, and a literal
\* whose negative volatility makes an advance fail where Normal::new is strict.
PairConfigs ==
    {Chain(1, 1, 500, 200, 750, SecsPerDay).val}
    \cup {c \in LiteralConfigs : c.initial_bsi = 500 /\ c.volatility = -200}
PairScenarios == {"Sideways", "BullishTrend"}

InitPair ==
    /\ NoBuilder /\ NoMarket /\ NoOracle /\ NoStrategy /\ NoAnalytics
    /\ \E c \in PairConfigs : sim = Simulator_new(c)
    /\ runs = [r \in RunIds |-> IdleRun]

NextPair ==
    \E r \in RunIds :
        RunBegin(r, PairScenarios, NowRunIn) \/ Tick(r) \/ Finish(r) \/ Cancel(r)

SpecPair == InitPair /\ [][NextPair]_vars

\* C1: two executions of run with the same configuration carrying a seed and the
\* same scenario make the same draws, so they end the same way with the same
\* trade log and the same final_bsi, total_volume, total_trades,
\* threshold_reached, duration_days and statistics.time_to_resolution.
C1_SeededRunsAgree ==
    (/\ sim.config.seed # << >>
     /\ runs[1].pc = "done" /\ runs[2].pc = "done"
     /\ runs[1].scenario = runs[2].scenario
     /\ runs[1].start_time = runs[2].start_time) =>
        LET a == runs[1].ret[1].val
            b == runs[2].ret[1].val
        IN  /\ runs[1].market.trades = runs[2].market.trades
            /\ a.final_bsi = b.final_bsi
            /\ a.total_volume = b.total_volume
            /\ a.total_trades = b.total_trades
            /\ a.threshold_reached = b.threshold_reached
            /\ a.duration_days = b.duration_days
            /\ a.statistics.time_to_resolution = b.statistics.time_to_resolution

\* A step of run r from the state run, as far as r's own locals, the shared
\* configuration and r's own draws decide it.
C17_OwnStep(run, next) ==
    \/ \E scenario \in PairScenarios, now \in NowRunIn,
          rts \in [1..sim.config.num_participants -> RiskToleranceIn] :
          run.pc = "idle" /\ next = run_begin(sim.config, scenario, now, rts)
    \/ /\ run.pc = "loop" /\ loop_continues(run)
       /\ \E drift \in DriftIn(run), z \in NoiseZ, strict \in StrictIn(run),
             hit \in HitIn(run), coins \in [1..Len(run.participants) -> BOOLEAN] :
             \E mag \in MagIn(hit) :
                next = run_tick(sim.config, run, drift, z, strict, hit, mag, coins)
    \/ run.pc = "loop" /\ ~loop_continues(run) /\ next = run_finish(run)
    \/ run.pc = "loop" /\ next.pc = "cancelled"

\* C17: with two runs of one simulator interleaved in any order, a step of one
\* run changes that run's locals (market, oracle, participants, result) only and
\* is decided by them, the configuration and its own draws alone; the shared
\* configuration never changes; and a run that failed, was cancelled or returned
\* changes nothing afterwards, in itself or in the other run.
C17_RunIsolation ==
    /\ [][\A r \in RunIds :
            runs'[r] # runs[r] =>
                /\ \A q \in RunIds \ {r} : runs'[q] = runs[q]
                /\ C17_OwnStep(runs[r], runs'[r])]_vars
    /\ [][sim' = sim]_vars
    /\ [][\A r \in RunIds :
            runs[r].pc \in {"done", "failed", "panicked", "cancelled"} =>
                runs'[r] = runs[r]]_vars

\* Witness of C17: one run was cancelled after its first tick, the other had
\* ticked before that and went on to return its result with a trade in it.
C17_Witness ==
    /\ runs[1].pc = "cancelled"
    /\ runs[2].pc = "done"
    /\ runs[2].ticks = 1
    /\ runs[2].ret[1].val.total_trades = 1
    /\ runs[2].scenario = "Sideways"

(***************************************************************************)
(* SpecPoll: the participant loop of one tick (simulator.rs:80-90) on the  *)
(* participants create_participants builds, for any BSI the tick's advance *)
(* returned and any draws of the participants.                             *)
(***************************************************************************)
\* Two participants, and one more than there are behaviours, so that the
\* behaviours wrap around.
CrowdIn == {2, Len(behaviors) + 1}
PollThresholdIn == {500, 750}
\* Distances to the threshold 0.75 of 0.25, 0.15, 0.1, 0.099, 0.05, 0, 0.2,
\* 0.201 and 0.25.
PollBsiIn == {500, 600, 650, 651, 700, 750, 950, 951, One}

\* The market after update_bsi(new_bsi) of a first tick, and the participants.
InitPoll ==
    /\ NoBuilder /\ NoRuns /\ NoOracle /\ NoStrategy /\ NoAnalytics
    /\ \E n \in CrowdIn, t \in PollThresholdIn, b \in BsiValues(PollBsiIn) :
          LET config == Chain(1, n, Half, 200, t, SecsPerDay).val
              market == Market_new(<<"sim", 0>>, config.initial_bsi, config.threshold,
                                   TimeInterval_new(0, SecsPerDay))
          IN  /\ mkt = update_bsi(market, b)
              /\ mkt_ret = [op |-> "update_bsi", new_bsi |-> b,
                            participants |->
                                create_participants(config, [i \in 1..n |-> Half]),
                            coins |-> << >>, trade_counter |-> 0]

Poll ==
    /\ mkt_ret.op = "update_bsi"
    /\ \E coins \in [1..Len(mkt_ret.participants) -> BOOLEAN] :
          LET traded == trade_loop([market |-> mkt, counter |-> mkt_ret.trade_counter],
                                   mkt_ret.participants, 1, coins, mkt_ret.new_bsi,
                                   mkt.threshold, 0)
          IN  /\ mkt' = traded.market
              /\ mkt_ret' = [mkt_ret EXCEPT !.op = "poll", !.coins = coins,
                                            !.trade_counter = traded.counter]
    /\ UNCHANGED <<builder, build_result, sim, runs, orc, orc_ret,
                   evaluation, backtest, analysis>>

NextPoll == Poll

SpecPoll == InitPoll /\ [][NextPoll]_vars

\* Participant i of the poll has a trade in the log.
C23_Traded(i) ==
    \E k \in 1..Len(mkt.trades) :
        mkt.trades[k].participant_id = mkt_ret.participants[i].id

\* C23: participant i has behaviour i mod 6 of the list; a Rational participant
\* does not trade when |bsi - threshold| <= 0.1 and a Conservative one does not
\* when |bsi - threshold| <= 0.2, whatever their draws; a Momentum, Contrarian,
\* Random or Aggressive participant trades exactly when its draw says so,
\* whatever the BSI and the threshold; so no trade of the tick's log made within
\* 0.1 of the threshold is a Rational participant's and none within 0.2 a
\* Conservative one's.
C23_DistanceGate ==
    mkt_ret.op = "poll" =>
        LET names == <<"Rational", "Momentum", "Contrarian", "Random",
                       "Conservative", "Aggressive">>
            dist(b) == IF b < mkt.threshold THEN mkt.threshold - b
                       ELSE b - mkt.threshold
            owner(k) == CHOOSE i \in 1..Len(mkt_ret.participants) :
                            mkt_ret.participants[i].id = mkt.trades[k].participant_id
        IN  /\ \A i \in 1..Len(mkt_ret.participants) :
                  LET behavior == mkt_ret.participants[i].behavior
                  IN  /\ behavior = names[((i - 1) % 6) + 1]
                      /\ (behavior = "Rational" /\ dist(mkt_ret.new_bsi) <= 100) =>
                            ~C23_Traded(i)
                      /\ (behavior = "Conservative" /\ dist(mkt_ret.new_bsi) <= 200) =>
                            ~C23_Traded(i)
                      /\ behavior \in {"Momentum", "Contrarian", "Random", "Aggressive"} =>
                            (C23_Traded(i) <=> mkt_ret.coins[i])
            /\ \A k \in 1..Len(mkt.trades) :
                  /\ \E i \in 1..Len(mkt_ret.participants) :
                        mkt_ret.participants[i].id = mkt.trades[k].participant_id
                  /\ mkt.trades[k].bsi_at_trade = mkt_ret.new_bsi
                  /\ mkt_ret.participants[owner(k)].behavior = "Rational" =>
                        dist(mkt.trades[k].bsi_at_trade) > 100
                  /\ mkt_ret.participants[owner(k)].behavior = "Conservative" =>
                        dist(mkt.trades[k].bsi_at_trade) > 200

\* Witness of C23: seven participants whose draws all said trade, at a BSI 0.2
\* away from the threshold: both Rational participants (0 and 6) traded, the
\* Conservative one (4) did not.
C23_Witness ==
    /\ mkt_ret.op = "poll"
    /\ Len(mkt_ret.participants) = 7
    /\ \A i \in 1..7 : mkt_ret.coins[i]
    /\ mkt_ret.new_bsi = 950 /\ mkt.threshold = 750
    /\ C23_Traded(1) /\ C23_Traded(7) /\ ~C23_Traded(5)
    /\ Len(mkt.trades) = 6

(***************************************************************************)
(* SpecStrategy: a caller evaluates any Strategy value on any valid BSI    *)
(* and any history (strategy.rs:24-61).                                    *)
(***************************************************************************)
StrategyThresholdIn == {-500, 0, 700, One, 1500}
LookbackIn == 0..(MaxHistory + 1)
MeanIn == {-500, 500, 2000}
DeviationIn == {-100, 0, 200}
StrategyBsiIn == {0, 500, 700, 800, One}
HistoryBsiIn == {0, 500, One}

Strategies ==
    [kind : {"ThresholdCrossing", "Contrarian"}, threshold : StrategyThresholdIn]
    \cup [kind : {"Momentum"}, lookback_periods : LookbackIn]
    \cup [kind : {"MeanReversion"}, mean : MeanIn, deviation : DeviationIn]
    \cup [kind : {"Custom"}, name : {"custom"}]

\* The slices of BSI values of length 0..MaxHistory.
Histories ==
    UNION {[1..n -> BsiValues(HistoryBsiIn)] : n \in 0..MaxHistory}

\* The arguments of the call are drawn here; Evaluate makes the call.
InitStrategy ==
    /\ NoBuilder /\ NoRuns /\ NoMarket /\ NoOracle /\ NoAnalytics
    /\ backtest = << >>
    /\ \E strategy \in Strategies, current_bsi \in BsiValues(StrategyBsiIn),
          history \in Histories :
          evaluation = [strategy |-> strategy, current_bsi |-> current_bsi,
                        history |-> history, outcome |-> "none", signal |-> None]

\* The call of evaluate on the drawn arguments.
Evaluate ==
    /\ evaluation.outcome = "none"
    /\ LET r == evaluate(evaluation.strategy, evaluation.current_bsi,
                         evaluation.history)
       IN  evaluation' = [evaluation EXCEPT !.outcome = r.outcome,
                                            !.signal = r.signal]
    /\ UNCHANGED <<builder, build_result, sim, runs, mkt, mkt_ret, orc, orc_ret,
                   backtest, analysis>>

NextStrategy == Evaluate

SpecStrategy == InitStrategy /\ [][NextStrategy]_vars

\* C12: evaluate is total with range [-1,1]: for each of the five variants with
\* any parameters (lookback_periods any count from 0 upward), every valid BSI
\* and every history including the empty one, it returns a signal s with
\* -1 <= s <= 1 and does not fail.
C12_EvaluateTotal ==
    evaluation.outcome # "none" =>
        /\ evaluation.outcome = "Ok"
        /\ evaluation.signal # << >>
        /\ -1000 <= evaluation.signal[1] /\ evaluation.signal[1] <= 1000

\* C13 as stated: ThresholdCrossing{t} gives +1 when b < t and -1 otherwise,
\* whatever the history, and Contrarian{t} gives the opposite signal:
\* Contrarian{t}.evaluate(b, h) = -ThresholdCrossing{t}.evaluate(b, h).
C13_ContrarianOpposite ==
    evaluation.outcome = "Ok" =>
        LET t == evaluation.strategy.threshold
            b == evaluation.current_bsi
            crossing == evaluate([kind |-> "ThresholdCrossing", threshold |-> t], b,
                                 evaluation.history)
        IN  /\ evaluation.strategy.kind = "ThresholdCrossing" =>
                  evaluation.signal = <<IF b < t THEN 1000 ELSE -1000>>
            /\ evaluation.strategy.kind = "Contrarian" =>
                  evaluation.signal[1] = -crossing.signal[1]

\* C13 as amended: ThresholdCrossing{t} gives +1 when b < t and -1 otherwise,
\* whatever the history; Contrarian{t} gives -1 when b > t and +1 otherwise,
\* whatever the history, so the two signals are equal for every b other than t
\* and opposite only at b = t (ThresholdCrossing -1, Contrarian +1).
C13_ThresholdSignals ==
    evaluation.outcome = "Ok" =>
        LET t == evaluation.strategy.threshold
            b == evaluation.current_bsi
            crossing == evaluate([kind |-> "ThresholdCrossing", threshold |-> t], b,
                                 evaluation.history)
        IN  /\ evaluation.strategy.kind = "ThresholdCrossing" =>
                  evaluation.signal = <<IF b < t THEN 1000 ELSE -1000>>
            /\ evaluation.strategy.kind = "Contrarian" =>
                  /\ evaluation.signal = <<IF b > t THEN -1000 ELSE 1000>>
                  /\ b # t => evaluation.signal = crossing.signal
                  /\ b = t => (evaluation.signal = <<1000>> /\ crossing.signal = <<-1000>>)

\* Witness of C13: Contrarian evaluated exactly at its threshold, on a history
\* that is not empty.
C13_Witness ==
    /\ evaluation.outcome = "Ok"
    /\ evaluation.strategy.kind = "Contrarian"
    /\ evaluation.current_bsi = evaluation.strategy.threshold
    /\ evaluation.history # << >>
    /\ evaluation.signal = <<One>>

(***************************************************************************)
(* SpecBacktest: a caller creates a StrategyBacktest and calls             *)
(* calculate_metrics on it, more than once, with any returns               *)
(* (strategy.rs:92-152).                                                   *)
(***************************************************************************)
ReturnIn == {-100, -50, 100, 200}

\* The slices of returns of length 0..MaxReturns.
ReturnSeqs == UNION {[1..n -> ReturnIn] : n \in 0..MaxReturns}

\* backtest: the record, the argument of the last call and the number of calls.
InitBacktest ==
    /\ NoBuilder /\ NoRuns /\ NoMarket /\ NoOracle /\ NoAnalytics
    /\ evaluation = << >>
    /\ backtest = [record |-> StrategyBacktest_new("Test Strategy"),
                   returns |-> << >>, calls |-> 0]

CalculateMetrics ==
    /\ backtest.calls < MaxCalls
    /\ \E returns \in ReturnSeqs :
          backtest' = [record |-> calculate_metrics(backtest.record, returns),
                       returns |-> returns, calls |-> backtest.calls + 1]
    /\ UNCHANGED <<builder, build_result, sim, runs, mkt, mkt_ret, orc, orc_ret,
                   evaluation, analysis>>

NextBacktest == CalculateMetrics

SpecBacktest == InitBacktest /\ [][NextBacktest]_vars

\* C14: after a call of calculate_metrics with an empty returns sequence the
\* record is zeroed (total_return, num_trades, win_rate, sharpe_ratio and
\* max_drawdown are 0), whatever calls were made on the record before.
C14_EmptyZeroes ==
    (backtest.calls > 0 /\ backtest.returns = << >>) =>
        /\ backtest.record.total_return = 0
        /\ backtest.record.num_trades = 0
        /\ backtest.record.win_rate = 0
        /\ backtest.record.sharpe_ratio = 0
        /\ backtest.record.max_drawdown = 0

\* The cumulative-sum path of the returns r: c_k = r_1 + ... + r_k, c_0 = 0.
C16_Path(r, k) == sum(SubSeq(r, 1, k))

\* The largest gap c_i - c_j over first <= i <= j <= Len(r).
C16_MaxGap(r, first) ==
    LET ordered == {C16_Path(r, ij[1]) - C16_Path(r, ij[2]) :
                      ij \in {x \in (first..Len(r)) \X (first..Len(r)) : x[1] <= x[2]}}
    IN  CHOOSE g \in ordered : \A h \in ordered : h <= g

\* C16 as stated: for non-empty returns, max_drawdown is the largest
\* peak-to-trough gap of the path c_1 .. c_n, the maximum over i <= j of
\* c_i - c_j with i and j from 1 on.
C16_DrawdownFromFirstPoint ==
    backtest.returns # << >> =>
        backtest.record.max_drawdown = C16_MaxGap(backtest.returns, 1)

\* C16 as amended: for non-empty returns, max_drawdown is the largest
\* peak-to-trough gap of the path that starts at c_0 = 0 before the first return:
\* the maximum over 0 <= i <= j <= n of c_i - c_j, a value >= 0 that is 0 when
\* no point of the path lies below an earlier one, the start included.
C16_DrawdownFromStart ==
    backtest.returns # << >> =>
        LET r == backtest.returns
            falls == \E i \in 0..Len(r), j \in 0..Len(r) :
                        i <= j /\ C16_Path(r, j) < C16_Path(r, i)
        IN  /\ backtest.record.max_drawdown = C16_MaxGap(r, 0)
            /\ backtest.record.max_drawdown >= 0
            /\ ~falls => backtest.record.max_drawdown = 0

\* Witness of C16: returns that open with a loss, recover to a new peak and
\* lose again less than at the start: the drawdown is the opening loss.
C16_Witness ==
    /\ backtest.returns = <<-100, 200, -50>>
    /\ backtest.record.max_drawdown = 100
    /\ backtest.record.num_trades = 3

(***************************************************************************)
(* SpecAnalytics: a caller hands any batch of results to                   *)
(* Analytics::analyze (analytics.rs:11-53).                                *)
(***************************************************************************)
\* SimulationResult values, reduced to the fields analyze reads: the two of
\* the module's test, a run resolved at 1.0 and a run without any trade.
ResultIn ==
    {[final_bsi |-> 800, total_volume |-> 10000 * One, total_trades |-> 100,
      duration_days |-> 30, threshold_reached |-> TRUE],
     [final_bsi |-> 700, total_volume |-> 8000 * One, total_trades |-> 80,
      duration_days |-> 30, threshold_reached |-> FALSE],
     [final_bsi |-> One, total_volume |-> 50 * One, total_trades |-> 1,
      duration_days |-> 0, threshold_reached |-> TRUE],
     [final_bsi |-> 0, total_volume |-> 0, total_trades |-> 0,
      duration_days |-> 1, threshold_reached |-> FALSE]}

\* The slices of results of length 0..MaxResults.
ResultSeqs == UNION {[1..n -> ResultIn] : n \in 0..MaxResults}

\* The argument of the call is drawn here; Analyze makes the call.
InitAnalytics ==
    /\ NoBuilder /\ NoRuns /\ NoMarket /\ NoOracle /\ NoStrategy
    /\ \E results \in ResultSeqs : analysis = [results |-> results, ret |-> None]

Analyze ==
    /\ analysis.ret = None
    /\ analysis' = [analysis EXCEPT !.ret = Some(analyze(analysis.results))]
    /\ UNCHANGED <<builder, build_result, sim, runs, mkt, mkt_ret, orc, orc_ret,
                   evaluation, backtest>>

NextAnalytics == Analyze

SpecAnalytics == InitAnalytics /\ [][NextAnalytics]_vars

\* C15: analyze returns total_simulations = the number of results,
\* successful_resolutions = the number of results with threshold_reached (so at
\* most total_simulations) and resolution_rate = their quotient, which lies in
\* [0,1] and is 1 when every result reached the threshold; for the empty batch
\* it returns the record with every field 0.
C15_Analyze ==
    analysis.ret # << >> =>
        LET m == analysis.ret[1]
            results == analysis.results
            reached == SelectSeq(results, LAMBDA r : r.threshold_reached)
        IN  /\ m.total_simulations = Len(results)
            /\ m.successful_resolutions = Len(reached)
            /\ m.successful_resolutions <= m.total_simulations
            /\ 0 <= m.resolution_rate /\ m.resolution_rate <= 1000
            /\ results # << >> =>
                  /\ m.resolution_rate * Len(results) <= Len(reached) * 1000
                  /\ Len(reached) * 1000 < (m.resolution_rate + 1) * Len(results)
                  /\ (reached = results) => m.resolution_rate = 1000
            /\ results = << >> => \A f \in DOMAIN m : m[f] = 0

\* Witness of C15: the batch of the module's test, one result of two resolved.
C15_Witness ==
    /\ analysis.ret # << >>
    /\ Len(analysis.results) = 2
    /\ analysis.results[1].threshold_reached
    /\ ~analysis.results[2].threshold_reached
    /\ analysis.ret[1].resolution_rate = Half

====
